---- MODULE Spec2Model ----
(***************************************************************************)
(* Session / token lifecycle of the LoginShoker authentication backend.    *)
(*                                                                         *)
(* The persistent store (tables usuarios, roles, usuario_roles, sesiones)  *)
(* is the state; every AuthService / model / controller / middleware       *)
(* operation is an action.  Strings (emails, passwords, durations) are     *)
(* tuples of character codes so that toLowerCase, the regular expressions  *)
(* and parseInt are computed, not assumed.  Time is counted in minutes.    *)
(* Refresh tokens are numbered in the order generateRefreshToken hands     *)
(* them out; the tables grow only through register and login, each of      *)
(* which takes a token, so MaxTokens bounds the tables as well.            *)
(*                                                                         *)
(* Spec      every request runs to completion before the next one starts.  *)
(* SpecConc  login and refreshTokens are split at their awaited store      *)
(*           calls, so that requests interleave between store operations.  *)
(* SpecRoles registration, login and refresh together with the role        *)
(*           administration routes (assign, change, approve).              *)
(* SpecReg   register split at its awaited store calls, with login.        *)
(* SpecPw    changePassword with register, login and refresh.              *)
(* SpecAdmin the user administration routes, with the store's answer to    *)
(*           each write of approveUser and of the permanent delete.        *)
(* SpecChange changeRole split at its two writes, with login and refresh.  *)
(* SpecSessions every operation that ends or removes session records.      *)
(* SpecSweep the expiry sweep among logins and refreshes in flight.        *)
(* SpecErrors the answers of the AuthController routes.                    *)
(* SpecValidate validatePassword applied to every short password.          *)
(* SpecLogout logout split at its store call, among logins and refreshes.  *)
(* SpecLock  the validity checks with the routes that flip a user's flags. *)
(* SpecRegFail register when the role or the session write fails.          *)
(* SpecEnv   login and refresh under each configured refresh lifetime.     *)
(* SpecSelf  the routes that deactivate or delete a user.                  *)
(* SpecBoot  the bootstrap (default roles, default administrator) on an    *)
(*           empty store.                                                  *)
(***************************************************************************)
EXTENDS Integers, Sequences, FiniteSets, TLC

\* ------------------------------------------------------------------ bounds
MaxTokens   == 2      \* refresh tokens generateRefreshToken may hand out
MaxTime     == 16     \* last instant (minutes) the clock may reach
MaxProcs    == 2      \* requests in flight at once (SpecConc)

\* --------------------------------------------------------------- the inputs
\* "r@b.c", "a@b.c", "A@b.c" and the malformed "a@bc"
AdminEmail == <<114, 64, 98, 46, 99>>
EmailLower == <<97, 64, 98, 46, 99>>
EmailUpper == <<65, 64, 98, 46, 99>>
EmailBad   == <<97, 64, 98, 99>>
RegisterEmails == {AdminEmail, EmailUpper, EmailBad}
LoginEmails    == {AdminEmail, EmailLower, EmailUpper}

\* "GoodPass1!", "Other#Pw2" and the weak "short1!"
PwGood  == <<71, 111, 111, 100, 80, 97, 115, 115, 49, 33>>
PwOther == <<79, 116, 104, 101, 114, 35, 80, 119, 50>>
PwWeak  == <<115, 104, 111, 114, 116, 49, 33>>
RegisterPasswords == {PwGood, PwWeak}
LoginPasswords    == {PwGood, PwOther}

\* '7d', '15m'
Dur7d  == <<55, 100>>
Dur15m == <<49, 53, 109>>
Unset  == <<>>          \* an environment variable that is not set (falsy)

NoId    == 0            \* null id / no row
NoToken == 0            \* undefined refresh token (falsy)
BadToken == MaxTokens + 1   \* a refresh token the server never generated
TokenDomain == 1..BadToken
Failed  == -1           \* a store call or a parse that threw

\* ------------------------------------------------------- utils/authUtils.js
toLowerCase(s) == [i \in DOMAIN s |-> IF s[i] \in 65..90 THEN s[i] + 32 ELSE s[i]]

\* variant: any text around an @ is taken for an address
isValidEmail_lax(e) == \E a \in DOMAIN e : e[a] = 64 /\ a > 1 /\ a < Len(e)

\* /^[^\s@]+@[^\s@]+\.[^\s@]+$/
isValidEmail(e) ==
  \E a \in DOMAIN e :
    /\ e[a] = 64
    /\ a > 1
    /\ \A i \in DOMAIN e : /\ e[i] \notin {9, 10, 11, 12, 13, 32}
                           /\ (e[i] = 64 => i = a)
    /\ \E d \in DOMAIN e : e[d] = 46 /\ d > a + 1 /\ d < Len(e)

SpecialChars == {33, 64, 35, 36, 37, 94, 38, 42, 40, 41, 44, 46, 63, 34, 58, 123, 125, 124, 60, 62}

\* variant: the first violated rule ends the validation
validatePasswordErrors_first(p) ==
  IF Len(p) < 8 THEN <<"minLength">>
  ELSE IF ~ \E i \in DOMAIN p : p[i] \in 65..90 THEN <<"upperCase">>
  ELSE IF ~ \E i \in DOMAIN p : p[i] \in 97..122 THEN <<"lowerCase">>
  ELSE IF ~ \E i \in DOMAIN p : p[i] \in 48..57 THEN <<"number">>
  ELSE IF ~ \E i \in DOMAIN p : p[i] \in SpecialChars THEN <<"specialChar">>
  ELSE <<>>

\* the violated rules, in the order the code pushes them
validatePasswordErrors(p) ==
  SelectSeq(<<"minLength", "upperCase", "lowerCase", "number", "specialChar">>,
    LAMBDA r :
      \/ r = "minLength"   /\ Len(p) < 8
      \/ r = "upperCase"   /\ ~ \E i \in DOMAIN p : p[i] \in 65..90
      \/ r = "lowerCase"   /\ ~ \E i \in DOMAIN p : p[i] \in 97..122
      \/ r = "number"      /\ ~ \E i \in DOMAIN p : p[i] \in 48..57
      \/ r = "specialChar" /\ ~ \E i \in DOMAIN p : p[i] \in SpecialChars)

validatePassword(p) ==
  [isValid |-> validatePasswordErrors(p) = <<>>, errors |-> validatePasswordErrors(p)]

\* bcrypt: the hash is opaque and matches exactly the password it was made from
hashPassword(p) == [bcrypt |-> p]
verifyPassword(p, hash) == hash.bcrypt = p

RECURSIVE parseInt(_)
parseInt(digits) ==
  IF digits = <<>> THEN 0
  ELSE 10 * parseInt(SubSeq(digits, 1, Len(digits) - 1)) + (digits[Len(digits)] - 48)

\* /^(\d+)([dhm])$/ ; Failed when the duration does not match.  UnitMinutes: the
\* minutes in one 'd', 'h', 'm'
getExpirationDate(duration, t) ==
  LET UnitMinutes(u) == IF u = 100 THEN 1440 ELSE IF u = 104 THEN 60 ELSE 1 IN
  IF /\ Len(duration) >= 2
     /\ duration[Len(duration)] \in {100, 104, 109}
     /\ \A i \in 1..(Len(duration) - 1) : duration[i] \in 48..57
  THEN t + parseInt(SubSeq(duration, 1, Len(duration) - 1)) * UnitMinutes(duration[Len(duration)])
  ELSE Failed

\* the digits a string starts with: what JavaScript's parseInt(string) converts
RECURSIVE LeadingDigits(_)
LeadingDigits(s) ==
  IF s = <<>> \/ s[1] \notin 48..57 THEN <<>> ELSE <<s[1]>> \o LeadingDigits(Tail(s))

\* express-validator isUUID(): 8-4-4-4-12 hexadecimal digits
isUUID(s) ==
  LET HexDigits == (48..57) \cup (65..70) \cup (97..102) IN
  /\ Len(s) = 36
  /\ \A i \in 1..36 : IF i \in {9, 14, 19, 24} THEN s[i] = 45 ELSE s[i] \in HexDigits

\* process.env.X || fallback
OrDefault(value, fallback) == IF value = Unset THEN fallback ELSE value

\* an access token: the signed payload, its expiry, and (history only) the
\* session that was created or renewed by the call that issued it
NoJwt  == [firma |-> FALSE, userId |-> NoId, roles |-> {}, exp |-> 0, sid |-> NoId]
Forged == [firma |-> FALSE, userId |-> 1, roles |-> {"admin"}, exp |-> MaxTime, sid |-> NoId]

generateJWT(userId, roleNames, expiresIn, t, sid) ==
  [firma |-> TRUE, userId |-> userId, roles |-> roleNames,
   exp |-> getExpirationDate(expiresIn, t), sid |-> sid]

\* jwt.verify: signature first, then expiry (expired once now >= exp)
verifyJWT(token, t) ==
  IF ~ token.firma THEN "JsonWebTokenError"
  ELSE IF t >= token.exp THEN "TokenExpiredError"
  ELSE "OK"

\* ------------------------------------------------------------------- state
VARIABLES
  env,            \* process.env: [REFRESH_TOKEN_EXPIRES_IN, JWT_EXPIRES_IN]
  now,            \* the clock, in minutes
  roles,          \* table roles:         id_rol -> nombre
  usuarios,       \* table usuarios:      id_usuario -> row
  usuario_roles,  \* table usuario_roles: set of <<usuario_id, rol_id>>
  sesiones,       \* table sesiones:      id_sesion -> row
  serial,         \* next id_usuario, id_sesion and refresh token to hand out
  jwts,           \* the access tokens issued so far
  last,           \* the response to the latest request
  hist,           \* history: successful refreshes per presented token, sessions closed by logout
  reqs            \* SpecConc: the requests in flight

vars == <<env, now, roles, usuarios, usuario_roles, sesiones, serial, jwts, last, hist, reqs>>

Procs == 1..MaxProcs
Idle  == [pc |-> "idle", tok |-> NoToken, uid |-> NoId, sid |-> NoId, rt |-> NoToken,
          email |-> <<>>, password |-> <<>>, rol |-> NoId]

\* a response: the operation, its error code ("OK" on success), the user and the session
\* it concerned, the refresh token it was given and the count it returns
Resp(op) ==
  [op |-> op, code |-> "OK", uid |-> NoId, sid |-> NoId, tok |-> NoToken, n |-> 0,
   details |-> <<>>]

\* the deployed role catalog: register assigns rol 5 (colaborador, pending approval),
\* approveUser assigns rol 2 (cliente)
RoleCatalog == (1 :> "admin") @@ (2 :> "cliente") @@ (3 :> "empleado") @@ (5 :> "colaborador")

Init ==
  /\ env = [REFRESH_TOKEN_EXPIRES_IN |-> Dur15m, JWT_EXPIRES_IN |-> Unset]
  /\ now = 0
  /\ roles = RoleCatalog
  /\ usuarios = (1 :> [email |-> AdminEmail, password_hash |-> hashPassword(PwGood),
                       activo |-> TRUE, bloqueado |-> FALSE])
  /\ usuario_roles = {<<1, 1>>}
  /\ sesiones = << >>
  /\ serial = [usuario |-> 2, sesion |-> 1, token |-> 1]
  /\ jwts = {}
  /\ last = Resp("init")
  /\ hist = [usos |-> [t \in TokenDomain |-> 0], cerradas |-> {}]
  /\ reqs = [p \in Procs |-> Idle]

\* ------------------------------------------------------ models/UserModel.js
\* .eq(...).single(): the row when exactly one matches, null otherwise (PGRST116)
Single(rows) == IF Cardinality(rows) = 1 THEN CHOOSE r \in rows : TRUE ELSE NoId

\* variant: the address is looked up as it was typed
findByEmail_exact(U, email) == Single({u \in DOMAIN U : U[u].email = email})

\* String(email || '').toLowerCase(), then .eq('email', ...).single()
findByEmail(U, email) == Single({u \in DOMAIN U : U[u].email = toLowerCase(email)})

findById(U, userId) == Single({u \in DOMAIN U : u = userId})

\* the roles joined to the user row by findWithRoles
RoleIds(UR, userId) == {ur[2] : ur \in {x \in UR : x[1] = userId}}
RoleNames(UR, R, userId) == {R[r] : r \in RoleIds(UR, userId) \cap DOMAIN R}

\* variant: the role names are those of the first access token issued to the user
findWithRoles_asIssued(UR, R, J, userId) ==
  IF \E j \in J : j.userId = userId
  THEN (CHOOSE j \in J : /\ j.userId = userId
                         /\ \A k \in J : k.userId = userId => j.exp <= k.exp).roles
  ELSE RoleNames(UR, R, userId)

\* findWithRoles(userId).roles.map(r => r.nombre): read from the store at the call; the
\* access tokens J issued before play no part
findWithRoles(UR, R, J, userId) == RoleNames(UR, R, userId)

\* variant: the new account is created active whatever the caller asked for
createUser_active(U, ser, email, password, activo, bloqueado) ==
  IF \E u \in DOMAIN U : U[u].email = toLowerCase(email)
  THEN [error |-> "EMAIL_ALREADY_EXISTS", id |-> NoId, usuarios |-> U]
  ELSE [error |-> "", id |-> ser.usuario,
        usuarios |-> (ser.usuario :> [email |-> toLowerCase(email),
                                      password_hash |-> hashPassword(password),
                                      activo |-> TRUE, bloqueado |-> bloqueado]) @@ U]

\* insert into usuarios; the unique index on email answers 23505
createUser(U, ser, email, password, activo, bloqueado) ==
  IF \E u \in DOMAIN U : U[u].email = toLowerCase(email)
  THEN [error |-> "EMAIL_ALREADY_EXISTS", id |-> NoId, usuarios |-> U]
  ELSE [error |-> "", id |-> ser.usuario,
        usuarios |-> (ser.usuario :> [email |-> toLowerCase(email),
                                      password_hash |-> hashPassword(password),
                                      activo |-> activo, bloqueado |-> bloqueado]) @@ U]

\* variant: the call reports success without inserting the row
assignRole_noInsert(UR, R, userId, rolId) == [error |-> "", usuario_roles |-> UR]

\* insert into usuario_roles; unique (usuario_id, rol_id), foreign key on rol_id
assignRole(UR, R, userId, rolId) ==
  IF <<userId, rolId>> \in UR THEN [error |-> "ROLE_ALREADY_ASSIGNED", usuario_roles |-> UR]
  ELSE IF rolId \notin DOMAIN R THEN [error |-> "23503", usuario_roles |-> UR]
  ELSE [error |-> "", usuario_roles |-> UR \cup {<<userId, rolId>>}]

removeAllRoles(UR, userId) == {ur \in UR : ur[1] # userId}

\* update of the allow-listed fields present in updateData
updateUser(U, userId, updateData) ==
  [u \in DOMAIN U |->
     IF u # userId THEN U[u]
     ELSE [U[u] EXCEPT
             !.activo    = IF "activo" \in DOMAIN updateData THEN updateData.activo ELSE @,
             !.bloqueado = IF "bloqueado" \in DOMAIN updateData THEN updateData.bloqueado ELSE @]]

\* --------------------------------------------------- models/SessionModel.js
generateRefreshToken(ser) == ser.token

createSession(S, ser, userId, expiresIn, t) ==
  (ser.sesion :> [usuario_id |-> userId, refresh_token |-> generateRefreshToken(ser),
                  fecha_creacion |-> t, fecha_expiracion |-> getExpirationDate(expiresIn, t),
                  activo |-> TRUE]) @@ S

\* variant: the lookup without the activo filter
findByRefreshToken_anyState(S, refreshToken) ==
  Single({s \in DOMAIN S : S[s].refresh_token = refreshToken})

\* .eq('refresh_token', t).eq('activo', true).single()
findByRefreshToken(S, refreshToken) ==
  Single({s \in DOMAIN S : S[s].refresh_token = refreshToken /\ S[s].activo})

\* variant: the update is not scoped to the user
invalidateSession_anyOwner(S, sessionId, userId) ==
  [s \in DOMAIN S |-> IF s = sessionId THEN [S[s] EXCEPT !.activo = FALSE] ELSE S[s]]

\* update activo = false where id_sesion = sessionId [and usuario_id = userId]
invalidateSession(S, sessionId, userId) ==
  [s \in DOMAIN S |->
     IF s = sessionId /\ (userId = NoId \/ S[s].usuario_id = userId)
     THEN [S[s] EXCEPT !.activo = FALSE] ELSE S[s]]

\* variant: the update leaves out the id_sesion filter
AllUserSessions_ignoreExcept(S, userId, exceptSessionId) ==
  {s \in DOMAIN S : S[s].usuario_id = userId /\ S[s].activo}

\* the rows invalidateAllUserSessions updates
AllUserSessions(S, userId, exceptSessionId) ==
  {s \in DOMAIN S : /\ S[s].usuario_id = userId
                    /\ S[s].activo
                    /\ (exceptSessionId # NoId => s # exceptSessionId)}

invalidateAllUserSessions(S, userId, exceptSessionId) ==
  [s \in DOMAIN S |->
     IF s \in AllUserSessions(S, userId, exceptSessionId)
     THEN [S[s] EXCEPT !.activo = FALSE] ELSE S[s]]

\* update activo = false where refresh_token = t
invalidateByRefreshToken(S, refreshToken) ==
  [s \in DOMAIN S |->
     IF S[s].refresh_token = refreshToken THEN [S[s] EXCEPT !.activo = FALSE] ELSE S[s]]

\* variant: the check rejects without invalidating
isValidSession_noSweep(S, U, refreshToken, t) ==
  LET s == findByRefreshToken(S, refreshToken) IN
  IF s = NoId THEN [valid |-> FALSE, sesiones |-> S]
  ELSE [valid |-> /\ ~ t > S[s].fecha_expiracion
                  /\ U[S[s].usuario_id].activo
                  /\ ~ U[S[s].usuario_id].bloqueado,
        sesiones |-> S]

\* [valid, sesiones]: the verdict and the table after the lazy invalidation
isValidSession(S, U, refreshToken, t) ==
  LET s == findByRefreshToken(S, refreshToken) IN
  IF s = NoId THEN [valid |-> FALSE, sesiones |-> S]
  ELSE IF t > S[s].fecha_expiracion THEN [valid |-> FALSE, sesiones |-> invalidateSession(S, s, NoId)]
  ELSE IF ~ U[S[s].usuario_id].activo \/ U[S[s].usuario_id].bloqueado
       THEN [valid |-> FALSE, sesiones |-> invalidateSession(S, s, NoId)]
  ELSE [valid |-> TRUE, sesiones |-> S]

\* variant: the update has no filter on fecha_expiracion
cleanExpiredSessions_all(S, t) ==
  [s \in DOMAIN S |-> [S[s] EXCEPT !.activo = FALSE]]

\* update ... set activo = false .lt('fecha_expiracion', now).eq('activo', true)
cleanExpiredSessions(S, t) ==
  [s \in DOMAIN S |-> IF S[s].fecha_expiracion < t /\ S[s].activo
                       THEN [S[s] EXCEPT !.activo = FALSE] ELSE S[s]]

\* .gt('fecha_expiracion', now)
getActiveSessions(S, userId, t) ==
  {s \in DOMAIN S : S[s].usuario_id = userId /\ S[s].activo /\ S[s].fecha_expiracion > t}

\* the row renewSession updates (NoId: .single() throws PGRST116)
RenewRow(S, refreshToken) ==
  Single({s \in DOMAIN S : S[s].refresh_token = refreshToken /\ S[s].activo})

\* variant: the renewal extends the session and keeps its token
renewSession_keepToken(S, ser, refreshToken, t) ==
  [s \in DOMAIN S |->
     IF s = RenewRow(S, refreshToken)
     THEN [S[s] EXCEPT !.fecha_expiracion = getExpirationDate(Dur7d, t), !.fecha_creacion = t]
     ELSE S[s]]

\* renewSession(refreshToken, expiresIn = '7d'): new token, new expiry, same row
renewSession(S, ser, refreshToken, t) ==
  [s \in DOMAIN S |->
     IF s = RenewRow(S, refreshToken)
     THEN [S[s] EXCEPT !.refresh_token = generateRefreshToken(ser),
                       !.fecha_expiracion = getExpirationDate(Dur7d, t),
                       !.fecha_creacion = t]
     ELSE S[s]]

\* update fecha_creacion = now where refresh_token = t and activo
updateLastActivity(S, refreshToken, t) ==
  [s \in DOMAIN S |->
     IF S[s].refresh_token = refreshToken /\ S[s].activo
     THEN [S[s] EXCEPT !.fecha_creacion = t] ELSE S[s]]

\* ------------------------------------------------- middleware/authMiddleware
\* variant: every token jwt.verify refuses is answered INVALID_TOKEN
authenticateToken_oneCode(U, token, t) ==
  IF token = NoJwt THEN "TOKEN_REQUIRED"
  ELSE IF verifyJWT(token, t) # "OK" THEN "INVALID_TOKEN"
  ELSE IF findById(U, token.userId) = NoId THEN "USER_NOT_FOUND"
  ELSE IF ~ U[token.userId].activo THEN "ACCOUNT_DISABLED"
  ELSE IF U[token.userId].bloqueado THEN "ACCOUNT_LOCKED"
  ELSE "OK"

\* authenticateToken followed by requireActiveUser: the code the gate answers
authenticateToken(U, token, t) ==
  IF token = NoJwt THEN "TOKEN_REQUIRED"
  ELSE IF verifyJWT(token, t) = "TokenExpiredError" THEN "TOKEN_EXPIRED"
  ELSE IF verifyJWT(token, t) = "JsonWebTokenError" THEN "INVALID_TOKEN"
  ELSE IF findById(U, token.userId) = NoId THEN "USER_NOT_FOUND"
  ELSE IF ~ U[token.userId].activo THEN "ACCOUNT_DISABLED"
  ELSE IF U[token.userId].bloqueado THEN "ACCOUNT_LOCKED"
  ELSE "OK"

\* requireRole(...names): the caller holds one of the named roles
requireRole(names, userRoleNames) == names \cap userRoleNames # {}

\* JavaScript values: the ids the store returns are numbers, the path parameters of a
\* request are strings of decimal digits
\* the path segment a client writes for an id
toString(n) == IF n < 10 THEN <<48 + n>> ELSE <<48 + (n \div 10), 48 + (n % 10)>>
\* requireOwnershipOrAdmin(): isAdmin || currentUserId === targetUserId, where
\* currentUserId is req.userId (user.id_usuario) and targetUserId is req.params.userId.
\* a === b: no conversion, values of different types are never equal
requireOwnershipOrAdmin(userRoleNames, currentUserId, targetUserId) ==
  \/ "admin" \in userRoleNames
  \/ currentUserId.type = targetUserId.type /\ currentUserId.val = targetUserId.val

\* the gate of /api/users/:userId for the caller of the token and the path's userId
OwnerGate(token, userId) ==
  requireOwnershipOrAdmin(RoleNames(usuario_roles, roles, token.userId),
                          [type |-> "number", val |-> token.userId],
                          [type |-> "string", val |-> userId])

\* the gate of the admin-only routes
AdminGate(token) ==
  /\ authenticateToken(usuarios, token, now) = "OK"
  /\ requireRole({"admin"}, RoleNames(usuario_roles, roles, token.userId))

\* ------------------------------------------------- services/AuthService.js
colaboradorRoleId == 5
clienteRoleId     == 2

RefreshTTL == OrDefault(env.REFRESH_TOKEN_EXPIRES_IN, Dur7d)
JwtTTL     == OrDefault(env.JWT_EXPIRES_IN, Dur15m)

CanCreateSession == serial.token <= MaxTokens
CanRotate        == serial.token <= MaxTokens

\* the refresh tokens a client may present: every one generated so far, and a made-up one
TokenInputs == 1..(serial.token - 1) \cup {BadToken}

\* variant: the token is also refused once its session is inactive
verifyAccessToken_session(U, token, t) ==
  /\ verifyJWT(token, t) = "OK"
  /\ findById(U, token.userId) # NoId
  /\ U[token.userId].activo
  /\ ~ U[token.userId].bloqueado
  /\ token.sid \in DOMAIN sesiones
  /\ sesiones[token.sid].activo

\* variant: the token is trusted on its signature and expiry alone
verifyAccessToken_tokenOnly(U, token, t) == verifyJWT(token, t) = "OK"

\* verifyAccessToken's verdict: the token verifies and its user is live
verifyAccessToken(U, token, t) ==
  /\ verifyJWT(token, t) = "OK"
  /\ findById(U, token.userId) # NoId
  /\ U[token.userId].activo
  /\ ~ U[token.userId].bloqueado

\* variant: the password is not verified
loginCheck_noPassword(U, email, password) ==
  LET u == findByEmail(U, email) IN
  IF u = NoId THEN "INVALID_CREDENTIALS"
  ELSE IF ~ U[u].activo THEN "ACCOUNT_DISABLED"
  ELSE IF U[u].bloqueado THEN "ACCOUNT_LOCKED"
  ELSE "OK"

\* variant: a password that does not match has an error code of its own
loginCheck_wrongPassword(U, email, password) ==
  LET u == findByEmail(U, email) IN
  IF u = NoId THEN "INVALID_CREDENTIALS"
  ELSE IF ~ U[u].activo THEN "ACCOUNT_DISABLED"
  ELSE IF U[u].bloqueado THEN "ACCOUNT_LOCKED"
  ELSE IF ~ verifyPassword(password, U[u].password_hash) THEN "WRONG_PASSWORD"
  ELSE "OK"

\* the error login throws before it writes, "OK" when it goes on to create the session
loginCheck(U, email, password) ==
  LET u == findByEmail(U, email) IN
  IF u = NoId THEN "INVALID_CREDENTIALS"
  ELSE IF ~ U[u].activo THEN "ACCOUNT_DISABLED"
  ELSE IF U[u].bloqueado THEN "ACCOUNT_LOCKED"
  ELSE IF ~ verifyPassword(password, U[u].password_hash) THEN "INVALID_CREDENTIALS"
  ELSE "OK"

Register(email, password) ==
  LET created  == createUser(usuarios, serial, email, password, FALSE, FALSE)
      uid      == created.id
      assigned == assignRole(usuario_roles, roles, uid, colaboradorRoleId)
      token    == generateJWT(uid, RoleNames(assigned.usuario_roles, roles, uid), JwtTTL, now,
                              serial.sesion)
      resp     == Resp("register")
  IN
  /\ UNCHANGED <<env, now, roles, hist, reqs>>
  /\ IF ~ isValidEmail(email)
     THEN /\ last' = [resp EXCEPT !.code = "EMAIL_INVALID"]
          /\ UNCHANGED <<usuarios, usuario_roles, sesiones, serial, jwts>>
     ELSE IF ~ validatePassword(password).isValid
     THEN /\ last' = [resp EXCEPT !.code = "PASSWORD_WEAK"]
          /\ UNCHANGED <<usuarios, usuario_roles, sesiones, serial, jwts>>
     ELSE IF created.error # ""
     THEN /\ last' = [resp EXCEPT !.code = created.error]
          /\ UNCHANGED <<usuarios, usuario_roles, sesiones, serial, jwts>>
     ELSE IF assigned.error # ""
     THEN /\ usuarios' = created.usuarios
          /\ serial' = [serial EXCEPT !.usuario = @ + 1]
          /\ last' = [resp EXCEPT !.code = "INTERNAL_ERROR", !.uid = uid]
          /\ UNCHANGED <<usuario_roles, sesiones, jwts>>
     ELSE /\ CanCreateSession
          /\ usuarios' = created.usuarios
          /\ usuario_roles' = assigned.usuario_roles
          /\ sesiones' = createSession(sesiones, serial, uid, RefreshTTL, now)
          /\ serial' = [usuario |-> serial.usuario + 1, sesion |-> serial.sesion + 1,
                        token |-> serial.token + 1]
          /\ jwts' = jwts \cup {token}
          /\ last' = [resp EXCEPT !.uid = uid, !.sid = serial.sesion]

Login(email, password) ==
  LET u     == findByEmail(usuarios, email)
      check == loginCheck(usuarios, email, password)
      token == generateJWT(u, RoleNames(usuario_roles, roles, u), JwtTTL, now, serial.sesion)
      resp  == [Resp("login") EXCEPT !.uid = u]
  IN
  /\ UNCHANGED <<env, now, roles, usuarios, usuario_roles, hist, reqs>>
  /\ IF check # "OK"
     THEN /\ last' = [resp EXCEPT !.code = check]
          /\ UNCHANGED <<sesiones, serial, jwts>>
     ELSE /\ CanCreateSession
          /\ sesiones' = createSession(sesiones, serial, u, RefreshTTL, now)
          /\ serial' = [serial EXCEPT !.sesion = @ + 1, !.token = @ + 1]
          /\ jwts' = jwts \cup {token}
          /\ last' = [resp EXCEPT !.sid = serial.sesion]

RefreshTokens(refreshToken) ==
  LET s       == findByRefreshToken(sesiones, refreshToken)
      checked == isValidSession(sesiones, usuarios, refreshToken, now)
      row     == RenewRow(checked.sesiones, refreshToken)
      renewed == renewSession(checked.sesiones, serial, refreshToken, now)
      u       == sesiones[s].usuario_id
      token   == generateJWT(u, findWithRoles(usuario_roles, roles, jwts, u), JwtTTL, now, row)
      resp    == [Resp("refreshTokens") EXCEPT !.tok = refreshToken]
  IN
  /\ UNCHANGED <<env, now, roles, usuarios, usuario_roles, reqs>>
  /\ IF s = NoId
     THEN /\ last' = [resp EXCEPT !.code = "INVALID_REFRESH_TOKEN"]
          /\ UNCHANGED <<sesiones, serial, jwts, hist>>
     ELSE IF ~ checked.valid
     THEN /\ sesiones' = checked.sesiones
          /\ last' = [resp EXCEPT !.code = "SESSION_EXPIRED", !.sid = s, !.uid = u]
          /\ UNCHANGED <<serial, jwts, hist>>
     ELSE IF row = NoId
     THEN /\ last' = [resp EXCEPT !.code = "INTERNAL_ERROR", !.sid = s, !.uid = u]
          /\ UNCHANGED <<sesiones, serial, jwts, hist>>
     ELSE /\ CanRotate
          /\ sesiones' = updateLastActivity(renewed, generateRefreshToken(serial), now)
          /\ serial' = [serial EXCEPT !.token = @ + 1]
          /\ jwts' = jwts \cup {token}
          /\ hist' = [hist EXCEPT !.usos[refreshToken] = @ + 1]
          /\ last' = [resp EXCEPT !.sid = row, !.uid = u]

\* POST /api/auth/refresh: validateRefreshToken (findByRefreshToken, isValidSession), then
\* AuthController.refresh, which answers what AuthService.refreshTokens answers
RefreshRoute(refreshToken) ==
  LET s       == findByRefreshToken(sesiones, refreshToken)
      checked == isValidSession(sesiones, usuarios, refreshToken, now)
      resp    == [Resp("refreshRoute") EXCEPT !.tok = refreshToken]
  IN
  IF refreshToken = NoToken
  THEN /\ last' = [resp EXCEPT !.code = "REFRESH_TOKEN_REQUIRED"]
       /\ UNCHANGED <<env, now, roles, usuarios, usuario_roles, sesiones, serial, jwts, hist, reqs>>
  ELSE IF s = NoId
  THEN /\ last' = [resp EXCEPT !.code = "INVALID_SESSION"]
       /\ UNCHANGED <<env, now, roles, usuarios, usuario_roles, sesiones, serial, jwts, hist, reqs>>
  ELSE IF ~ checked.valid
  THEN /\ sesiones' = checked.sesiones
       /\ last' = [resp EXCEPT !.code = "SESSION_EXPIRED", !.sid = s,
                                !.uid = sesiones[s].usuario_id]
       /\ UNCHANGED <<env, now, roles, usuarios, usuario_roles, serial, jwts, hist, reqs>>
  ELSE RefreshTokens(refreshToken)

\* AuthService.logout: whether it threw, and the table it leaves.  The store's update
\* either is applied ("ok") or fails ("error")
logoutService(S, refreshToken, store) ==
  IF refreshToken = NoToken THEN [threw |-> FALSE, sesiones |-> S]
  ELSE IF store = "error" THEN [threw |-> TRUE, sesiones |-> S]
  ELSE [threw |-> FALSE, sesiones |-> invalidateByRefreshToken(S, refreshToken)]

\* variant: the controller lets the service's error through
logoutResponse_rethrow(threw) == IF threw THEN "INTERNAL_ERROR" ELSE "OK"

\* AuthController.logout: the catch answers success as well
logoutResponse(threw) == "OK"

Logout(refreshToken, store) ==
  LET done == logoutService(sesiones, refreshToken, store) IN
  /\ sesiones' = done.sesiones
  /\ hist' = [hist EXCEPT !.cerradas =
                @ \cup {s \in DOMAIN sesiones : sesiones[s].activo /\ ~ done.sesiones[s].activo}]
  /\ last' = [Resp("logout") EXCEPT !.tok = refreshToken, !.code = logoutResponse(done.threw)]
  /\ UNCHANGED <<env, now, roles, usuarios, usuario_roles, serial, jwts, reqs>>

VerifyAccessToken(token) ==
  /\ last' = [Resp("verifyAccessToken") EXCEPT
                !.uid = token.userId, !.sid = token.sid,
                !.code = IF verifyAccessToken(usuarios, token, now) THEN "OK" ELSE "NULL"]
  /\ UNCHANGED <<env, now, roles, usuarios, usuario_roles, sesiones, serial, jwts, hist, reqs>>

\* GET /api/auth/me: the gate, then the profile
GetProfile(token) ==
  /\ last' = [Resp("getProfile") EXCEPT
                !.uid = token.userId, !.sid = token.sid,
                !.code = authenticateToken(usuarios, token, now)]
  /\ UNCHANGED <<env, now, roles, usuarios, usuario_roles, sesiones, serial, jwts, hist, reqs>>

IsValidSession(refreshToken) ==
  LET checked == isValidSession(sesiones, usuarios, refreshToken, now) IN
  /\ sesiones' = checked.sesiones
  /\ last' = [Resp("isValidSession") EXCEPT
                !.tok = refreshToken,
                !.sid = findByRefreshToken(sesiones, refreshToken),
                !.code = IF checked.valid THEN "OK" ELSE "FALSE"]
  /\ UNCHANGED <<env, now, roles, usuarios, usuario_roles, serial, jwts, hist, reqs>>

\* AuthService.cleanExpiredSessions: the count is the number of rows the update returns
CleanExpiredSessions ==
  /\ sesiones' = cleanExpiredSessions(sesiones, now)
  /\ last' = [Resp("cleanExpiredSessions") EXCEPT
                !.n = Cardinality({s \in DOMAIN sesiones :
                                     sesiones[s].activo /\ ~ sesiones'[s].activo})]
  /\ UNCHANGED <<env, now, roles, usuarios, usuario_roles, serial, jwts, hist, reqs>>

\* DELETE /api/auth/sessions/:sessionId
InvalidateSession(token, sessionId) ==
  /\ authenticateToken(usuarios, token, now) = "OK"
  /\ sesiones' = invalidateSession(sesiones, sessionId, token.userId)
  /\ last' = [Resp("invalidateSession") EXCEPT !.uid = token.userId, !.sid = sessionId]
  /\ UNCHANGED <<env, now, roles, usuarios, usuario_roles, serial, jwts, hist, reqs>>

\* AuthService.logoutAllSessions(userId, exceptSessionId): the count and the table
logoutAllSessions(S, userId, exceptSessionId) ==
  [count    |-> Cardinality(AllUserSessions(S, userId, exceptSessionId)),
   sesiones |-> invalidateAllUserSessions(S, userId, exceptSessionId)]

LogoutAllSessions(userId, exceptSessionId) ==
  LET done == logoutAllSessions(sesiones, userId, exceptSessionId) IN
  /\ sesiones' = done.sesiones
  /\ last' = [Resp("logoutAllSessions") EXCEPT !.uid = userId, !.sid = exceptSessionId,
                                               !.n = done.count]
  /\ UNCHANGED <<env, now, roles, usuarios, usuario_roles, serial, jwts, hist, reqs>>

\* req.session?.id / req.session?.id_sesion behind authenticateToken, which sets
\* req.user, req.userId and req.userRoles and never req.session: undefined (NoId)

\* POST /api/auth/logout-all; the response records the session the caller's token was
\* issued with
LogoutAll(token) ==
  LET done == logoutAllSessions(sesiones, token.userId, NoId) IN
  /\ authenticateToken(usuarios, token, now) = "OK"
  /\ sesiones' = done.sesiones
  /\ last' = [Resp("logoutAll") EXCEPT !.uid = token.userId, !.sid = token.sid,
                                       !.n = done.count]
  /\ UNCHANGED <<env, now, roles, usuarios, usuario_roles, serial, jwts, hist, reqs>>

\* --------------------------------------- routes/sessionRoutes, SessionController
\* the path segments of DELETE /api/sessions/<segment>: "all", and a UUID-shaped id
\* "00000001-0000-0000-0000-000000000000"
All   == <<97, 108, 108>>
Uuid1 == <<48, 48, 48, 48, 48, 48, 48, 49, 45, 48, 48, 48, 48, 45, 48, 48, 48, 48, 45,
           48, 48, 48, 48, 45, 48, 48, 48, 48, 48, 48, 48, 48, 48, 48, 48, 48>>

\* DELETE /api/sessions/<segment>.  router.delete('/:sessionId', [isUUID], validateRequest,
\* invalidateSession) is registered before router.delete('/all', invalidateAllSessions),
\* so every segment, "all" included, is taken by the first route and its validation
SessionsDelete(token, segment) ==
  LET sessionId == parseInt(LeadingDigits(segment))
      resp == [Resp(IF segment = All THEN "sessionsDeleteAll" ELSE "sessionsDelete")
                 EXCEPT !.uid = token.userId,
                        !.sid = IF segment = All THEN token.sid ELSE sessionId]
  IN
  /\ authenticateToken(usuarios, token, now) = "OK"
  /\ UNCHANGED <<env, now, roles, usuarios, usuario_roles, serial, jwts, hist, reqs>>
  /\ IF ~ isUUID(segment)
     THEN last' = [resp EXCEPT !.code = "VALIDATION_ERROR"] /\ UNCHANGED sesiones
     ELSE IF sessionId \notin getActiveSessions(sesiones, token.userId, now)
     THEN last' = [resp EXCEPT !.code = "SESSION_NOT_FOUND"] /\ UNCHANGED sesiones
     ELSE /\ sesiones' = invalidateSession(sesiones, sessionId, token.userId)
          /\ last' = resp

\* ----------------------------------------------- controllers/UserController
\* PATCH /api/users/:userId/toggle-active
ToggleActive(token, userId, activo) ==
  LET resp == [Resp("toggleActive") EXCEPT !.uid = userId] IN
  /\ AdminGate(token)
  /\ UNCHANGED <<env, now, roles, usuario_roles, sesiones, serial, jwts, reqs>>
  /\ IF findById(usuarios, userId) = NoId
     THEN last' = [resp EXCEPT !.code = "USER_NOT_FOUND"] /\ UNCHANGED <<usuarios, hist>>
     ELSE IF userId = token.userId /\ ~ activo
     THEN last' = [resp EXCEPT !.code = "CANNOT_DEACTIVATE_SELF"] /\ UNCHANGED <<usuarios, hist>>
     ELSE /\ usuarios' = updateUser(usuarios, userId, [activo |-> activo])
          /\ UNCHANGED hist
          /\ last' = resp

\* GET /api/users/:userId, the path naming userId
GetUser(token, userId) ==
  LET resp  == [Resp("getUser") EXCEPT !.uid = userId]
      param == toString(userId)
  IN
  /\ authenticateToken(usuarios, token, now) = "OK"
  /\ UNCHANGED <<env, now, roles, usuarios, usuario_roles, sesiones, serial, jwts, hist, reqs>>
  /\ IF ~ OwnerGate(token, param)
     THEN last' = [resp EXCEPT !.code = "ACCESS_DENIED"]
     ELSE IF findById(usuarios, parseInt(param)) = NoId
     THEN last' = [resp EXCEPT !.code = "USER_NOT_FOUND"]
     ELSE last' = resp

\* PUT /api/users/:userId, the path naming userId, with the body's activo / bloqueado
UpdateUser(token, userId, updateData) ==
  LET resp  == [Resp("updateUser") EXCEPT !.uid = userId]
      param == toString(userId)
  IN
  /\ authenticateToken(usuarios, token, now) = "OK"
  /\ UNCHANGED <<env, now, roles, usuario_roles, sesiones, serial, jwts, reqs>>
  /\ IF ~ OwnerGate(token, param)
     THEN last' = [resp EXCEPT !.code = "ACCESS_DENIED"] /\ UNCHANGED <<usuarios, hist>>
     ELSE IF findById(usuarios, parseInt(param)) = NoId
     THEN last' = [resp EXCEPT !.code = "USER_NOT_FOUND"] /\ UNCHANGED <<usuarios, hist>>
     ELSE /\ usuarios' = updateUser(usuarios, parseInt(param), updateData)
          /\ UNCHANGED hist
          /\ last' = resp

\* PATCH /api/users/:userId/approve
ApproveUser(token, userId) ==
  LET resp == [Resp("approveUser") EXCEPT !.uid = userId]
      assigned == assignRole(removeAllRoles(usuario_roles, userId), roles, userId, clienteRoleId)
  IN
  /\ AdminGate(token)
  /\ UNCHANGED <<env, now, roles, sesiones, serial, jwts, reqs>>
  /\ IF findById(usuarios, userId) = NoId
     THEN /\ last' = [resp EXCEPT !.code = "USER_NOT_FOUND"]
          /\ UNCHANGED <<usuarios, usuario_roles, hist>>
     ELSE IF colaboradorRoleId \notin RoleIds(usuario_roles, userId)
     THEN /\ last' = [resp EXCEPT !.code = "NOT_PENDING_APPROVAL"]
          /\ UNCHANGED <<usuarios, usuario_roles, hist>>
     ELSE /\ usuarios' = updateUser(usuarios, userId, [activo |-> TRUE, bloqueado |-> FALSE])
          /\ usuario_roles' = assigned.usuario_roles
          /\ UNCHANGED hist
          /\ last' = [resp EXCEPT !.code = IF assigned.error = "" THEN "OK" ELSE "INTERNAL_ERROR"]

\* POST /api/users/:userId/roles
AssignRole(token, userId, rolId) ==
  LET resp     == [Resp("assignRole") EXCEPT !.uid = userId]
      assigned == assignRole(usuario_roles, roles, userId, rolId)
  IN
  /\ AdminGate(token)
  /\ UNCHANGED <<env, now, roles, usuarios, sesiones, serial, jwts, hist, reqs>>
  /\ IF findById(usuarios, userId) = NoId
     THEN last' = [resp EXCEPT !.code = "USER_NOT_FOUND"] /\ UNCHANGED usuario_roles
     ELSE IF rolId \notin DOMAIN roles
     THEN last' = [resp EXCEPT !.code = "ROLE_NOT_FOUND"] /\ UNCHANGED usuario_roles
     ELSE /\ usuario_roles' = assigned.usuario_roles
          /\ last' = [resp EXCEPT !.code = IF assigned.error = "" THEN "OK" ELSE assigned.error]

\* PATCH /api/users/:userId/role: the user's roles are replaced by the one given
ChangeRole(token, userId, roleId) ==
  LET resp     == [Resp("changeRole") EXCEPT !.uid = userId]
      assigned == assignRole(removeAllRoles(usuario_roles, userId), roles, userId, roleId)
  IN
  /\ AdminGate(token)
  /\ UNCHANGED <<env, now, roles, usuarios, sesiones, serial, jwts, hist, reqs>>
  /\ IF findById(usuarios, userId) = NoId
     THEN last' = [resp EXCEPT !.code = "USER_NOT_FOUND"] /\ UNCHANGED usuario_roles
     ELSE IF colaboradorRoleId \in RoleIds(usuario_roles, userId)
     THEN last' = [resp EXCEPT !.code = "USER_PENDING_APPROVAL"] /\ UNCHANGED usuario_roles
     ELSE IF roleId \notin DOMAIN roles
     THEN last' = [resp EXCEPT !.code = "ROLE_NOT_FOUND"] /\ UNCHANGED usuario_roles
     ELSE /\ usuario_roles' = assigned.usuario_roles
          /\ last' = resp

\* ------------------------------------------------------------------- clock
\* the clock moves to an instant at which some expiry test changes its answer
Tick ==
  /\ LET expiries == {sesiones[s].fecha_expiracion : s \in DOMAIN sesiones}
                        \cup {j.exp : j \in jwts}
     IN  \E t \in expiries \cup {e + 1 : e \in expiries} :
           t > now /\ t <= MaxTime /\ now' = t
  /\ last' = Resp("tick")
  /\ UNCHANGED <<env, roles, usuarios, usuario_roles, sesiones, serial, jwts, hist, reqs>>

\* ------------------------------------------------------------ specification
StoreOutcomes == {"ok", "error"}
\* the ids a request may name: every row's, and one that no row has
UserIds    == DOMAIN usuarios \cup {serial.usuario}
SessionIds == DOMAIN sesiones \cup {serial.sesion}
\* one access token the gate accepts per caller (the gate reads the caller's flags and
\* roles from the store, so every accepted token of a caller acts alike)
Bearers ==
  {j \in jwts : /\ authenticateToken(usuarios, j, now) = "OK"
                /\ j = CHOOSE k \in jwts : /\ k.userId = j.userId
                                           /\ authenticateToken(usuarios, k, now) = "OK"}
UpdateBodies == {[activo |-> TRUE], [activo |-> FALSE], [bloqueado |-> TRUE], [bloqueado |-> FALSE]}

Next ==
  \/ \E e \in RegisterEmails, p \in RegisterPasswords : Register(e, p)
  \/ \E e \in LoginEmails, p \in LoginPasswords : Login(e, p)
  \/ \E t \in TokenInputs : RefreshTokens(t)
  \/ \E t \in TokenInputs \cup {NoToken} : RefreshRoute(t)
  \/ \E t \in TokenInputs \cup {NoToken}, store \in StoreOutcomes : Logout(t, store)
  \/ \E j \in jwts \cup {Forged} : VerifyAccessToken(j)
  \/ \E j \in jwts \cup {Forged, NoJwt} : GetProfile(j)
  \/ \E t \in TokenInputs : IsValidSession(t)
  \/ CleanExpiredSessions
  \/ \E j \in Bearers, s \in SessionIds : InvalidateSession(j, s)
  \/ \E u \in UserIds, x \in SessionIds \cup {NoId} : LogoutAllSessions(u, x)
  \/ \E j \in Bearers : LogoutAll(j)
  \/ \E j \in Bearers, g \in {toString(x) : x \in DOMAIN sesiones} \cup {All, Uuid1} : SessionsDelete(j, g)
  \/ \E j \in Bearers, u \in UserIds, a \in BOOLEAN : ToggleActive(j, u, a)
  \/ \E j \in Bearers, u \in UserIds : GetUser(j, u)
  \/ \E j \in Bearers, u \in UserIds, d \in UpdateBodies : UpdateUser(j, u, d)
  \/ \E j \in Bearers, u \in UserIds : ApproveUser(j, u)
  \/ Tick

Spec == Init /\ [][Next]_vars

\* ------------------------------------------- requests split at their store calls
\* AuthService.login up to its checks: findByEmail, activo, bloqueado, verifyPassword
LoginStart(p, email, password) ==
  LET u     == findByEmail(usuarios, email)
      check == loginCheck(usuarios, email, password)
  IN
  /\ reqs[p].pc = "idle"
  /\ UNCHANGED <<env, now, roles, usuarios, usuario_roles, sesiones, serial, jwts, hist>>
  /\ IF check # "OK"
     THEN /\ last' = [Resp("login") EXCEPT !.uid = u, !.code = check]
          /\ UNCHANGED reqs
     ELSE /\ reqs' = [reqs EXCEPT ![p] = [Idle EXCEPT !.pc = "login_create", !.uid = u]]
          /\ UNCHANGED last

\* ... its SessionModel.createSession
LoginCreate(p) ==
  /\ reqs[p].pc = "login_create"
  /\ CanCreateSession
  /\ sesiones' = createSession(sesiones, serial, reqs[p].uid, RefreshTTL, now)
  /\ serial' = [serial EXCEPT !.sesion = @ + 1, !.token = @ + 1]
  /\ reqs' = [reqs EXCEPT ![p].pc = "login_roles", ![p].sid = serial.sesion]
  /\ UNCHANGED <<env, now, roles, usuarios, usuario_roles, jwts, last, hist>>

\* ... its findWithRoles, the access token and the answer
LoginFinish(p) ==
  /\ reqs[p].pc = "login_roles"
  /\ jwts' = jwts \cup {generateJWT(reqs[p].uid, RoleNames(usuario_roles, roles, reqs[p].uid),
                                    JwtTTL, now, reqs[p].sid)}
  /\ last' = [Resp("login") EXCEPT !.uid = reqs[p].uid, !.sid = reqs[p].sid]
  /\ reqs' = [reqs EXCEPT ![p] = Idle]
  /\ UNCHANGED <<env, now, roles, usuarios, usuario_roles, sesiones, serial, hist>>

\* AuthService.refreshTokens: its findByRefreshToken
RefreshFind(p, refreshToken) ==
  LET s == findByRefreshToken(sesiones, refreshToken) IN
  /\ reqs[p].pc = "idle"
  /\ UNCHANGED <<env, now, roles, usuarios, usuario_roles, sesiones, serial, jwts, hist>>
  /\ IF s = NoId
     THEN /\ last' = [Resp("refreshTokens") EXCEPT !.tok = refreshToken,
                                                   !.code = "INVALID_REFRESH_TOKEN"]
          /\ UNCHANGED reqs
     ELSE /\ reqs' = [reqs EXCEPT ![p] = [Idle EXCEPT !.pc = "refresh_check",
                                                      !.tok = refreshToken, !.sid = s,
                                                      !.uid = sesiones[s].usuario_id]]
          /\ UNCHANGED last

\* ... its isValidSession
RefreshCheck(p) ==
  LET checked == isValidSession(sesiones, usuarios, reqs[p].tok, now) IN
  /\ reqs[p].pc = "refresh_check"
  /\ sesiones' = checked.sesiones
  /\ UNCHANGED <<env, now, roles, usuarios, usuario_roles, serial, jwts, hist>>
  /\ IF checked.valid
     THEN /\ reqs' = [reqs EXCEPT ![p].pc = "refresh_renew"]
          /\ UNCHANGED last
     ELSE /\ last' = [Resp("refreshTokens") EXCEPT !.tok = reqs[p].tok, !.sid = reqs[p].sid,
                                                   !.uid = reqs[p].uid,
                                                   !.code = "SESSION_EXPIRED"]
          /\ reqs' = [reqs EXCEPT ![p] = Idle]

\* ... its renewSession
RefreshRenew(p) ==
  /\ reqs[p].pc = "refresh_renew"
  /\ UNCHANGED <<env, now, roles, usuarios, usuario_roles, jwts>>
  /\ IF RenewRow(sesiones, reqs[p].tok) = NoId
     THEN /\ last' = [Resp("refreshTokens") EXCEPT !.tok = reqs[p].tok, !.sid = reqs[p].sid,
                                                   !.uid = reqs[p].uid,
                                                   !.code = "INTERNAL_ERROR"]
          /\ reqs' = [reqs EXCEPT ![p] = Idle]
          /\ UNCHANGED <<sesiones, serial, hist>>
     ELSE /\ CanRotate
          /\ sesiones' = renewSession(sesiones, serial, reqs[p].tok, now)
          /\ serial' = [serial EXCEPT !.token = @ + 1]
          /\ hist' = [hist EXCEPT !.usos[reqs[p].tok] = @ + 1]
          /\ reqs' = [reqs EXCEPT ![p].pc = "refresh_roles",
                                  ![p].rt = generateRefreshToken(serial)]
          /\ UNCHANGED last

\* ... its findWithRoles, the access token, updateLastActivity and the answer
RefreshFinish(p) ==
  /\ reqs[p].pc = "refresh_roles"
  /\ jwts' = jwts \cup {generateJWT(reqs[p].uid,
                                    findWithRoles(usuario_roles, roles, jwts, reqs[p].uid),
                                    JwtTTL, now, reqs[p].sid)}
  /\ sesiones' = updateLastActivity(sesiones, reqs[p].rt, now)
  /\ last' = [Resp("refreshTokens") EXCEPT !.tok = reqs[p].tok, !.sid = reqs[p].sid,
                                           !.uid = reqs[p].uid]
  /\ reqs' = [reqs EXCEPT ![p] = Idle]
  /\ UNCHANGED <<env, now, roles, usuarios, usuario_roles, serial, hist>>

NextConc ==
  \/ \E p \in Procs, e \in LoginEmails, w \in LoginPasswords : LoginStart(p, e, w)
  \/ \E p \in Procs : LoginCreate(p)
  \/ \E p \in Procs : LoginFinish(p)
  \/ \E p \in Procs, t \in TokenInputs : RefreshFind(p, t)
  \/ \E p \in Procs : RefreshCheck(p)
  \/ \E p \in Procs : RefreshRenew(p)
  \/ \E p \in Procs : RefreshFinish(p)
  \/ \E j \in jwts \cup {Forged} : VerifyAccessToken(j)
  \/ \E j \in Bearers, u \in UserIds, d \in UpdateBodies : UpdateUser(j, u, d)
  \/ \E t \in TokenInputs, store \in StoreOutcomes : Logout(t, store)
  \/ Tick

SpecConc == Init /\ [][NextConc]_vars

\* ----------------------------------------------- role administration and tokens
\* the role ids a request may name: empleado, and one the catalog does not have
RoleInputs == {3, 4}

NextRoles ==
  \/ \E e \in RegisterEmails, p \in RegisterPasswords : Register(e, p)
  \/ \E e \in LoginEmails, p \in LoginPasswords : Login(e, p)
  \/ \E t \in TokenInputs : RefreshTokens(t)
  \/ \E j \in Bearers, u \in UserIds : ApproveUser(j, u)
  \/ \E j \in Bearers, u \in UserIds, r \in RoleInputs : AssignRole(j, u, r)
  \/ \E j \in Bearers, u \in UserIds, r \in RoleInputs : ChangeRole(j, u, r)
  \/ Tick

SpecRoles == Init /\ [][NextRoles]_vars

\* ------------------------------------------- register split at its store calls

\* AuthService.register up to its first store call: the two validations
RegisterStart(p, email, password) ==
  /\ reqs[p].pc = "idle"
  /\ UNCHANGED <<env, now, roles, usuarios, usuario_roles, sesiones, serial, jwts, hist>>
  /\ IF ~ isValidEmail(email)
     THEN /\ last' = [Resp("register") EXCEPT !.code = "EMAIL_INVALID"]
          /\ UNCHANGED reqs
     ELSE IF ~ validatePassword(password).isValid
     THEN /\ last' = [Resp("register") EXCEPT !.code = "PASSWORD_WEAK"]
          /\ UNCHANGED reqs
     ELSE /\ reqs' = [reqs EXCEPT ![p] = [Idle EXCEPT !.pc = "register_insert",
                                                      !.email = email,
                                                      !.password = password]]
          /\ UNCHANGED last

\* ... its UserModel.createUser: one insert, refused by the unique index on email
RegisterInsert(p) ==
  LET created == createUser(usuarios, serial, reqs[p].email, reqs[p].password, FALSE, FALSE) IN
  /\ reqs[p].pc = "register_insert"
  /\ UNCHANGED <<env, now, roles, usuario_roles, sesiones, jwts, hist>>
  /\ IF created.error # ""
     THEN /\ last' = [Resp("register") EXCEPT !.code = created.error]
          /\ reqs' = [reqs EXCEPT ![p] = Idle]
          /\ UNCHANGED <<usuarios, serial>>
     ELSE /\ usuarios' = created.usuarios
          /\ serial' = [serial EXCEPT !.usuario = @ + 1]
          /\ reqs' = [reqs EXCEPT ![p].pc = "register_role", ![p].uid = created.id]
          /\ UNCHANGED last

\* ... its UserModel.assignRole(user.id_usuario, 5)
RegisterRole(p) ==
  LET assigned == assignRole(usuario_roles, roles, reqs[p].uid, colaboradorRoleId) IN
  /\ reqs[p].pc = "register_role"
  /\ UNCHANGED <<env, now, roles, usuarios, sesiones, serial, jwts, hist>>
  /\ IF assigned.error # ""
     THEN /\ last' = [Resp("register") EXCEPT !.code = "INTERNAL_ERROR", !.uid = reqs[p].uid]
          /\ reqs' = [reqs EXCEPT ![p] = Idle]
          /\ UNCHANGED usuario_roles
     ELSE /\ usuario_roles' = assigned.usuario_roles
          /\ reqs' = [reqs EXCEPT ![p].pc = "register_session"]
          /\ UNCHANGED last

\* ... its SessionModel.createSession
RegisterSession(p) ==
  /\ reqs[p].pc = "register_session"
  /\ CanCreateSession
  /\ sesiones' = createSession(sesiones, serial, reqs[p].uid, RefreshTTL, now)
  /\ serial' = [serial EXCEPT !.sesion = @ + 1, !.token = @ + 1]
  /\ reqs' = [reqs EXCEPT ![p].pc = "register_roles", ![p].sid = serial.sesion]
  /\ UNCHANGED <<env, now, roles, usuarios, usuario_roles, jwts, last, hist>>

\* ... its findWithRoles, the access token and the answer
RegisterFinish(p) ==
  /\ reqs[p].pc = "register_roles"
  /\ jwts' = jwts \cup {generateJWT(reqs[p].uid,
                                    findWithRoles(usuario_roles, roles, jwts, reqs[p].uid),
                                    JwtTTL, now, reqs[p].sid)}
  /\ last' = [Resp("register") EXCEPT !.uid = reqs[p].uid, !.sid = reqs[p].sid]
  /\ reqs' = [reqs EXCEPT ![p] = Idle]
  /\ UNCHANGED <<env, now, roles, usuarios, usuario_roles, sesiones, serial, hist>>

NextReg ==
  \/ \E p \in Procs, e \in {EmailLower, EmailUpper, EmailBad}, w \in RegisterPasswords :
       RegisterStart(p, e, w)
  \/ \E p \in Procs : RegisterInsert(p)
  \/ \E p \in Procs : RegisterRole(p)
  \/ \E p \in Procs : RegisterSession(p)
  \/ \E p \in Procs : RegisterFinish(p)
  \/ \E e \in LoginEmails, w \in LoginPasswords : Login(e, w)
  \/ \E j \in Bearers, u \in UserIds, a \in BOOLEAN : ToggleActive(j, u, a)
  \/ Tick

SpecReg == Init /\ [][NextReg]_vars

\* ------------------------------------------------------------ password change
\* variant: the update touches no row
changePassword_noRow(U, userId, newPassword, store) ==
  IF store = "error" THEN [error |-> "STORE_ERROR", usuarios |-> U]
  ELSE [error |-> "", usuarios |-> U]

\* UserModel.changePassword: one update of password_hash on the rows with this id; a
\* store error is thrown and nothing is written
changePassword(U, userId, newPassword, store) ==
  IF store = "error" THEN [error |-> "STORE_ERROR", usuarios |-> U]
  ELSE [error |-> "",
        usuarios |-> [u \in DOMAIN U |->
                        IF u = userId THEN [U[u] EXCEPT !.password_hash = hashPassword(newPassword)]
                        ELSE U[u]]]

\* variant: the strength of the new password is tested before the current one is verified
changePasswordService_weakFirst(U, userId, currentPassword, newPassword, store) ==
  LET found == findById(U, userId)
      user  == IF found = NoId THEN NoId ELSE findByEmail(U, U[found].email)
  IN
  IF found = NoId THEN [error |-> "TypeError", usuarios |-> U]
  ELSE IF user = NoId THEN [error |-> "USER_NOT_FOUND", usuarios |-> U]
  ELSE IF ~ validatePassword(newPassword).isValid
  THEN [error |-> "PASSWORD_WEAK", usuarios |-> U]
  ELSE IF ~ verifyPassword(currentPassword, U[user].password_hash)
  THEN [error |-> "INVALID_CURRENT_PASSWORD", usuarios |-> U]
  ELSE changePassword(U, userId, newPassword, store)

\* AuthService.changePassword: findByEmail((await findById(userId)).email) reads .email of
\* null when no row has the id, which throws a TypeError before the USER_NOT_FOUND test
changePasswordService(U, userId, currentPassword, newPassword, store) ==
  LET found == findById(U, userId)
      user  == IF found = NoId THEN NoId ELSE findByEmail(U, U[found].email)
  IN
  IF found = NoId THEN [error |-> "TypeError", usuarios |-> U]
  ELSE IF user = NoId THEN [error |-> "USER_NOT_FOUND", usuarios |-> U]
  ELSE IF ~ verifyPassword(currentPassword, U[user].password_hash)
  THEN [error |-> "INVALID_CURRENT_PASSWORD", usuarios |-> U]
  ELSE IF ~ validatePassword(newPassword).isValid
  THEN [error |-> "PASSWORD_WEAK", usuarios |-> U]
  ELSE changePassword(U, userId, newPassword, store)

ChangePassword(userId, currentPassword, newPassword, store) ==
  LET changed == changePasswordService(usuarios, userId, currentPassword, newPassword, store)
      resp    == [Resp("changePassword") EXCEPT !.uid = userId]
  IN
  /\ usuarios' = changed.usuarios
  /\ last' = [resp EXCEPT !.code = IF changed.error = "" THEN "OK" ELSE changed.error]
  /\ UNCHANGED <<env, now, roles, usuario_roles, sesiones, serial, jwts, hist, reqs>>

NewPasswords == {PwGood, PwOther, PwWeak}

NextPw ==
  \/ \E e \in RegisterEmails, p \in RegisterPasswords : Register(e, p)
  \/ \E e \in LoginEmails, p \in LoginPasswords : Login(e, p)
  \/ \E t \in TokenInputs : RefreshTokens(t)
  \/ \E u \in UserIds, c \in LoginPasswords, n \in NewPasswords, store \in StoreOutcomes :
       ChangePassword(u, c, n, store)
  \/ \E j \in Bearers, u \in UserIds, a \in BOOLEAN : ToggleActive(j, u, a)
  \/ Tick

SpecPw == Init /\ [][NextPw]_vars


\* ------------------------------------------------------ user administration
\* UserController.approveUser: three awaited writes in a row, updateUser, removeAllRoles
\* and assignRole, none undone when a later one throws; the thrown store error reaches
\* errorHandler, which answers INTERNAL_ERROR
approveUser(U, UR, R, userId, failing) ==
  LET activated == updateUser(U, userId, [activo |-> TRUE, bloqueado |-> FALSE])
      removed   == removeAllRoles(UR, userId)
      assigned  == assignRole(removed, R, userId, clienteRoleId)
  IN
  IF findById(U, userId) = NoId
  THEN [code |-> "USER_NOT_FOUND", usuarios |-> U, usuario_roles |-> UR]
  ELSE IF colaboradorRoleId \notin RoleIds(UR, userId)
  THEN [code |-> "NOT_PENDING_APPROVAL", usuarios |-> U, usuario_roles |-> UR]
  ELSE IF failing = "updateUser"
  THEN [code |-> "INTERNAL_ERROR", usuarios |-> U, usuario_roles |-> UR]
  ELSE IF failing = "removeAllRoles"
  THEN [code |-> "INTERNAL_ERROR", usuarios |-> activated, usuario_roles |-> UR]
  ELSE IF failing = "assignRole" \/ assigned.error # ""
  THEN [code |-> "INTERNAL_ERROR", usuarios |-> activated, usuario_roles |-> removed]
  ELSE [code |-> "OK", usuarios |-> activated, usuario_roles |-> assigned.usuario_roles]

\* PATCH /api/users/:userId/approve, with the store's answer to each write
ApproveUserWrites(token, userId, failing) ==
  LET done == approveUser(usuarios, usuario_roles, roles, userId, failing) IN
  /\ AdminGate(token)
  /\ usuarios' = done.usuarios
  /\ usuario_roles' = done.usuario_roles
  /\ last' = [Resp("approveUser") EXCEPT !.uid = userId, !.code = done.code]
  /\ UNCHANGED <<env, now, roles, sesiones, serial, jwts, hist, reqs>>

\* UserModel.removeRole: delete of the row (usuario_id, rol_id)
removeRole(UR, userId, rolId) == UR \ {<<userId, rolId>>}

\* DELETE /api/users/<segment>/roles/:roleId: the route's validation wants the segment
\* to be a UUID, and the handler takes parseInt(segment) for the user's id
RemoveRole(token, segment, roleId) ==
  LET userId == parseInt(LeadingDigits(segment))
      resp   == [Resp("removeRole") EXCEPT !.uid = userId]
  IN
  /\ AdminGate(token)
  /\ UNCHANGED <<env, now, roles, usuarios, sesiones, serial, jwts, hist, reqs>>
  /\ IF ~ isUUID(segment)
     THEN last' = [resp EXCEPT !.code = "VALIDATION_ERROR"] /\ UNCHANGED usuario_roles
     ELSE IF findById(usuarios, userId) = NoId
     THEN last' = [resp EXCEPT !.code = "USER_NOT_FOUND"] /\ UNCHANGED usuario_roles
     ELSE IF roleId \notin DOMAIN roles
     THEN last' = [resp EXCEPT !.code = "ROLE_NOT_FOUND"] /\ UNCHANGED usuario_roles
     ELSE /\ usuario_roles' = removeRole(usuario_roles, userId, roleId)
          /\ last' = resp

\* what the store answers to the delete of the usuarios row: done, refused because rows
\* of other tables reference the user (23503), or another error
DeleteOutcomes == {"ok", "23503", "error"}

\* UserModel.deleteUser: removeAllRoles, then the delete of the usuarios row, which takes
\* the user's sesiones rows with it (usuario_id ... ON DELETE CASCADE)
deleteUser(U, UR, S, userId, store) ==
  LET removed == removeAllRoles(UR, userId) IN
  IF store = "ok"
  THEN [error |-> "",
        usuarios |-> [u \in DOMAIN U \ {userId} |-> U[u]],
        usuario_roles |-> removed,
        sesiones |-> [s \in {x \in DOMAIN S : S[x].usuario_id # userId} |-> S[s]]]
  ELSE [error |-> store, usuarios |-> U, usuario_roles |-> removed, sesiones |-> S]

\* DELETE /api/users/:userId/permanent
DeleteUserPermanently(token, userId, store) ==
  LET resp    == [Resp("deleteUserPermanently") EXCEPT !.uid = userId]
      deleted == deleteUser(usuarios, usuario_roles, sesiones, userId, store)
  IN
  /\ AdminGate(token)
  /\ UNCHANGED <<env, now, roles, serial, jwts, hist, reqs>>
  /\ IF findById(usuarios, userId) = NoId
     THEN /\ last' = [resp EXCEPT !.code = "USER_NOT_FOUND"]
          /\ UNCHANGED <<usuarios, usuario_roles, sesiones>>
     ELSE IF userId = token.userId
     THEN /\ last' = [resp EXCEPT !.code = "CANNOT_DELETE_SELF"]
          /\ UNCHANGED <<usuarios, usuario_roles, sesiones>>
     ELSE /\ usuarios' = deleted.usuarios
          /\ usuario_roles' = deleted.usuario_roles
          /\ sesiones' = deleted.sesiones
          /\ last' = [resp EXCEPT !.code = IF deleted.error = "" THEN "OK"
                                           ELSE IF deleted.error = "23503"
                                           THEN "USER_HAS_DEPENDENCIES"
                                           ELSE "INTERNAL_ERROR"]

NextAdmin ==
  \/ \E e \in RegisterEmails, p \in RegisterPasswords : Register(e, p)
  \/ \E e \in LoginEmails, p \in LoginPasswords : Login(e, p)
  \/ \E j \in Bearers, u \in UserIds, f \in {"", "updateUser", "removeAllRoles", "assignRole"} : ApproveUserWrites(j, u, f)
  \/ \E j \in Bearers, u \in UserIds, a \in BOOLEAN : ToggleActive(j, u, a)
  \/ \E j \in Bearers, u \in UserIds, d \in UpdateBodies : UpdateUser(j, u, d)
  \/ \E j \in Bearers, u \in UserIds, r \in RoleInputs : AssignRole(j, u, r)
  \/ \E j \in Bearers,
          g \in {toString(u) : u \in UserIds} \cup {Uuid1, [Uuid1 EXCEPT ![8] = 50]},
          r \in RoleInputs \cup {colaboradorRoleId} :
       RemoveRole(j, g, r)
  \/ \E j \in Bearers, u \in UserIds, r \in RoleInputs : ChangeRole(j, u, r)
  \/ \E j \in Bearers, u \in UserIds, store \in DeleteOutcomes : DeleteUserPermanently(j, u, store)
  \/ Tick

SpecAdmin == Init /\ [][NextAdmin]_vars


\* ------------------------------------------------ changeRole, one store call a step
\* UserController.changeRole up to its first write: the user exists, does not hold the
\* pending-approval role, and the role exists
ChangeRoleStart(p, token, userId, roleId) ==
  LET resp == [Resp("changeRole") EXCEPT !.uid = userId] IN
  /\ reqs[p].pc = "idle"
  /\ AdminGate(token)
  /\ UNCHANGED <<env, now, roles, usuarios, usuario_roles, sesiones, serial, jwts, hist>>
  /\ IF findById(usuarios, userId) = NoId
     THEN last' = [resp EXCEPT !.code = "USER_NOT_FOUND"] /\ UNCHANGED reqs
     ELSE IF colaboradorRoleId \in RoleIds(usuario_roles, userId)
     THEN last' = [resp EXCEPT !.code = "USER_PENDING_APPROVAL"] /\ UNCHANGED reqs
     ELSE IF roleId \notin DOMAIN roles
     THEN last' = [resp EXCEPT !.code = "ROLE_NOT_FOUND"] /\ UNCHANGED reqs
     ELSE /\ reqs' = [reqs EXCEPT ![p] = [Idle EXCEPT !.pc = "changeRole_remove",
                                                      !.uid = userId, !.rol = roleId]]
          /\ UNCHANGED last

\* ... its await UserModel.removeAllRoles(userId)
ChangeRoleRemove(p) ==
  /\ reqs[p].pc = "changeRole_remove"
  /\ usuario_roles' = removeAllRoles(usuario_roles, reqs[p].uid)
  /\ reqs' = [reqs EXCEPT ![p].pc = "changeRole_assign"]
  /\ UNCHANGED <<env, now, roles, usuarios, sesiones, serial, jwts, last, hist>>

\* ... its await UserModel.assignRole(userId, roleId) and the answer
ChangeRoleAssign(p) ==
  LET assigned == assignRole(usuario_roles, roles, reqs[p].uid, reqs[p].rol)
      resp     == [Resp("changeRole") EXCEPT !.uid = reqs[p].uid]
  IN
  /\ reqs[p].pc = "changeRole_assign"
  /\ usuario_roles' = assigned.usuario_roles
  /\ last' = [resp EXCEPT !.code = IF assigned.error = "" THEN "OK" ELSE assigned.error]
  /\ reqs' = [reqs EXCEPT ![p] = Idle]
  /\ UNCHANGED <<env, now, roles, usuarios, sesiones, serial, jwts, hist>>

NextChange ==
  \/ \E e \in LoginEmails, p \in LoginPasswords : Login(e, p)
  \/ \E t \in TokenInputs : RefreshTokens(t)
  \/ \E p \in Procs, j \in Bearers, u \in UserIds, r \in {clienteRoleId, 3} : ChangeRoleStart(p, j, u, r)
  \/ \E p \in Procs : ChangeRoleRemove(p)
  \/ \E p \in Procs : ChangeRoleAssign(p)
  \/ Tick

SpecChange == Init /\ [][NextChange]_vars


\* ----------------------------------------------- the life of the session records
NextSessions ==
  \/ \E e \in RegisterEmails, p \in RegisterPasswords : Register(e, p)
  \/ \E e \in LoginEmails, p \in LoginPasswords : Login(e, p)
  \/ \E t \in TokenInputs : RefreshTokens(t)
  \/ \E t \in TokenInputs, store \in StoreOutcomes : Logout(t, store)
  \/ \E j \in Bearers, s \in SessionIds : InvalidateSession(j, s)
  \/ \E j \in Bearers : LogoutAll(j)
  \/ CleanExpiredSessions
  \/ \E j \in Bearers, u \in UserIds, store \in DeleteOutcomes : DeleteUserPermanently(j, u, store)
  \/ Tick

SpecSessions == Init /\ [][NextSessions]_vars


\* ------------------------------------- the expiry sweep among requests in flight
NextSweep ==
  \/ \E p \in Procs, e \in LoginEmails, w \in LoginPasswords : LoginStart(p, e, w)
  \/ \E p \in Procs : LoginCreate(p)
  \/ \E p \in Procs : LoginFinish(p)
  \/ \E p \in Procs, t \in TokenInputs : RefreshFind(p, t)
  \/ \E p \in Procs : RefreshCheck(p)
  \/ \E p \in Procs : RefreshRenew(p)
  \/ \E p \in Procs : RefreshFinish(p)
  \/ \E t \in TokenInputs, store \in StoreOutcomes : Logout(t, store)
  \/ CleanExpiredSessions
  \/ Tick

SpecSweep == Init /\ [][NextSweep]_vars


\* ------------------------------------------------- what the caller is answered
\* middleware/errorHandler: the code answered for an error no controller has mapped
errorHandler(error) ==
  IF error = "23505" THEN "DUPLICATE_DATA"
  ELSE IF error = "23503" THEN "INVALID_REFERENCE"
  ELSE IF error \in {"EMAIL_ALREADY_EXISTS", "ROLE_ALREADY_EXISTS", "ROLE_ALREADY_ASSIGNED",
                     "ROLE_HAS_USERS"} THEN error
  ELSE IF error = "TokenExpiredError" THEN "TOKEN_EXPIRED"
  ELSE IF error = "JsonWebTokenError" THEN "INVALID_TOKEN"
  ELSE "INTERNAL_ERROR"

\* AuthController.changePassword: the three errors it maps; any other is thrown on to
\* errorHandler
changePasswordResponse(error) ==
  IF error = "" THEN "OK"
  ELSE IF error \in {"USER_NOT_FOUND", "INVALID_CURRENT_PASSWORD"} THEN error
  ELSE IF error = "PASSWORD_WEAK" THEN "VALIDATION_ERROR"
  ELSE errorHandler(error)

\* POST /api/auth/change-password answered for req.userId = userId, the store accepting
\* the update
ChangePasswordRequest(userId, currentPassword, newPassword) ==
  LET changed == changePasswordService(usuarios, userId, currentPassword, newPassword, "ok")
      resp    == [Resp("changePasswordRequest") EXCEPT !.uid = userId]
  IN
  /\ usuarios' = changed.usuarios
  /\ last' = [resp EXCEPT !.code = changePasswordResponse(changed.error)]
  /\ UNCHANGED <<env, now, roles, usuario_roles, sesiones, serial, jwts, hist, reqs>>

NextErrors ==
  \/ \E e \in RegisterEmails, p \in RegisterPasswords : Register(e, p)
  \/ \E p \in Procs, e \in LoginEmails, w \in LoginPasswords : LoginStart(p, e, w)
  \/ \E p \in Procs : LoginCreate(p)
  \/ \E p \in Procs : LoginFinish(p)
  \/ \E p \in Procs, t \in TokenInputs : RefreshFind(p, t)
  \/ \E p \in Procs : RefreshCheck(p)
  \/ \E p \in Procs : RefreshRenew(p)
  \/ \E p \in Procs : RefreshFinish(p)
  \/ \E t \in TokenInputs, store \in StoreOutcomes : Logout(t, store)
  \/ \E j \in Bearers : LogoutAll(j)
  \/ \E u \in UserIds, c \in LoginPasswords, n \in RegisterPasswords :
       ChangePasswordRequest(u, c, n)
  \/ Tick

SpecErrors == Init /\ [][NextErrors]_vars


\* --------------------------------------------------- AuthUtils.validatePassword
\* "alllowercase1!" and "GOOD-Pass123!"
PwAllLower == <<97, 108, 108, 108, 111, 119, 101, 114, 99, 97, 115, 101, 49, 33>>
PwDashed   == <<71, 79, 79, 68, 45, 80, 97, 115, 115, 49, 50, 51, 33>>

\* the passwords validated: every string of at most MaxPwLen characters over one
\* character of each class ("A", "a", "1", "!") and one of none ("-"), and the
\* documented examples
MaxPwLen == 8
PasswordInputs ==
  UNION {[1..n -> {65, 97, 49, 33, 45}] : n \in 0..MaxPwLen} \cup {PwWeak, PwGood, PwAllLower, PwDashed}

InitValidate ==
  /\ env = [REFRESH_TOKEN_EXPIRES_IN |-> Dur15m, JWT_EXPIRES_IN |-> Unset]
  /\ now = 0
  /\ roles = RoleCatalog
  /\ usuarios = (1 :> [email |-> AdminEmail, password_hash |-> hashPassword(PwGood),
                       activo |-> TRUE, bloqueado |-> FALSE])
  /\ usuario_roles = {<<1, 1>>}
  /\ sesiones = << >>
  /\ serial = [usuario |-> 2, sesion |-> 1, token |-> 1]
  /\ jwts = {}
  /\ last = Resp("init")
  /\ hist = [usos |-> [t \in TokenDomain |-> 0], cerradas |-> {}]
  /\ \E w \in PasswordInputs :
       reqs = [p \in Procs |-> IF p = 1 THEN [Idle EXCEPT !.password = w] ELSE Idle]

\* AuthUtils.validatePassword(password) applied to the password of request p
ValidatePassword(p) ==
  LET validation == validatePassword(reqs[p].password) IN
  /\ reqs[p].pc = "idle"
  /\ last' = [Resp("validatePassword") EXCEPT
                !.code = IF validation.isValid THEN "OK" ELSE "PASSWORD_WEAK",
                !.details = validation.errors]
  /\ reqs' = [reqs EXCEPT ![p].pc = "validated"]
  /\ UNCHANGED <<env, now, roles, usuarios, usuario_roles, sesiones, serial, jwts, hist>>

SpecValidate == InitValidate /\ [][ValidatePassword(1)]_vars


\* --------------------------------------------------- logout split at its store call
\* AuthController.logout / AuthService.logout up to the await of the store's update: the
\* request names its refresh token.  sid remembers the session that holds the token at
\* this moment; the code does not read it
LogoutCall(p, refreshToken) ==
  /\ reqs[p].pc = "idle"
  /\ reqs' = [reqs EXCEPT ![p] = [Idle EXCEPT
                !.pc = "logout_write", !.tok = refreshToken,
                !.sid = Single({s \in DOMAIN sesiones :
                                sesiones[s].refresh_token = refreshToken})]]
  /\ UNCHANGED <<env, now, roles, usuarios, usuario_roles, sesiones, serial, jwts, last, hist>>

\* ... SessionModel.invalidateByRefreshToken's update and the answer
LogoutWrite(p, store) ==
  LET done == logoutService(sesiones, reqs[p].tok, store) IN
  /\ reqs[p].pc = "logout_write"
  /\ sesiones' = done.sesiones
  /\ hist' = [hist EXCEPT !.cerradas =
                @ \cup {s \in DOMAIN sesiones : sesiones[s].activo /\ ~ done.sesiones[s].activo}]
  /\ last' = [Resp("logout") EXCEPT !.tok = reqs[p].tok, !.sid = reqs[p].sid,
                                    !.code = logoutResponse(done.threw)]
  /\ reqs' = [reqs EXCEPT ![p] = Idle]
  /\ UNCHANGED <<env, now, roles, usuarios, usuario_roles, serial, jwts>>

NextLogout ==
  \/ \E p \in Procs, e \in LoginEmails, w \in LoginPasswords : LoginStart(p, e, w)
  \/ \E p \in Procs : LoginCreate(p)
  \/ \E p \in Procs : LoginFinish(p)
  \/ \E p \in Procs, t \in TokenInputs : RefreshFind(p, t)
  \/ \E p \in Procs : RefreshCheck(p)
  \/ \E p \in Procs : RefreshRenew(p)
  \/ \E p \in Procs : RefreshFinish(p)
  \/ \E p \in Procs, t \in TokenInputs : LogoutCall(p, t)
  \/ \E p \in Procs, store \in StoreOutcomes : LogoutWrite(p, store)
  \/ Tick

SpecLogout == Init /\ [][NextLogout]_vars


\* ------------------------------------- sessions of deactivated and locked accounts
\* the requests that create sessions, check them and flip an account's flags; none of
\* them closes a session by request
NextLock ==
  \/ \E e \in RegisterEmails, p \in RegisterPasswords : Register(e, p)
  \/ \E e \in LoginEmails, p \in LoginPasswords : Login(e, p)
  \/ \E t \in TokenInputs : RefreshTokens(t)
  \/ \E t \in TokenInputs \cup {NoToken} : RefreshRoute(t)
  \/ \E t \in TokenInputs : IsValidSession(t)
  \/ \E j \in Bearers, u \in UserIds, a \in BOOLEAN : ToggleActive(j, u, a)
  \/ \E j \in Bearers, u \in UserIds, d \in UpdateBodies : UpdateUser(j, u, d)
  \/ Tick

SpecLock == Init /\ [][NextLock]_vars


\* ------------------------------------------- register when a store write fails
\* UserModel.assignRole's insert returns an error (the foreign key on rol_id when the
\* catalog holds only the roles initializeDefaultRoles seeds, or the store is
\* unreachable): assignRole throws and register rethrows from its catch
RegisterRoleFails(p) ==
  /\ reqs[p].pc = "register_role"
  /\ last' = [Resp("register") EXCEPT !.code = "INTERNAL_ERROR", !.uid = reqs[p].uid]
  /\ reqs' = [reqs EXCEPT ![p] = Idle]
  /\ UNCHANGED <<env, now, roles, usuarios, usuario_roles, sesiones, serial, jwts, hist>>

\* SessionModel.createSession's insert returns an error: createSession throws and
\* register rethrows from its catch
RegisterSessionFails(p) ==
  /\ reqs[p].pc = "register_session"
  /\ last' = [Resp("register") EXCEPT !.code = "INTERNAL_ERROR", !.uid = reqs[p].uid]
  /\ reqs' = [reqs EXCEPT ![p] = Idle]
  /\ UNCHANGED <<env, now, roles, usuarios, usuario_roles, sesiones, serial, jwts, hist>>

NextRegFail ==
  \/ \E p \in Procs, e \in {EmailLower, EmailUpper, EmailBad}, w \in RegisterPasswords :
       RegisterStart(p, e, w)
  \/ \E p \in Procs : RegisterInsert(p)
  \/ \E p \in Procs : RegisterRole(p)
  \/ \E p \in Procs : RegisterRoleFails(p)
  \/ \E p \in Procs : RegisterSession(p)
  \/ \E p \in Procs : RegisterSessionFails(p)
  \/ \E p \in Procs : RegisterFinish(p)
  \/ \E e \in LoginEmails, w \in LoginPasswords : Login(e, w)
  \/ \E j \in Bearers, u \in UserIds, a \in BOOLEAN : ToggleActive(j, u, a)
  \/ Tick

SpecRegFail == Init /\ [][NextRegFail]_vars


\* ----------------------------------------- the configured refresh-token lifetime
\* the values process.env.REFRESH_TOKEN_EXPIRES_IN is started with: unset, '7d', '15m', '1h'
ConfiguredLifetimes == {Unset, Dur7d, Dur15m, <<49, 104>>}

InitEnv ==
  /\ env \in [REFRESH_TOKEN_EXPIRES_IN : ConfiguredLifetimes, JWT_EXPIRES_IN : {Unset}]
  /\ now = 0
  /\ roles = RoleCatalog
  /\ usuarios = (1 :> [email |-> AdminEmail, password_hash |-> hashPassword(PwGood),
                       activo |-> TRUE, bloqueado |-> FALSE])
  /\ usuario_roles = {<<1, 1>>}
  /\ sesiones = << >>
  /\ serial = [usuario |-> 2, sesion |-> 1, token |-> 1]
  /\ jwts = {}
  /\ last = Resp("init")
  /\ hist = [usos |-> [t \in TokenDomain |-> 0], cerradas |-> {}]
  /\ reqs = [p \in Procs |-> Idle]

NextEnv ==
  \/ \E e \in RegisterEmails, p \in RegisterPasswords : Register(e, p)
  \/ \E e \in LoginEmails, p \in LoginPasswords : Login(e, p)
  \/ \E t \in TokenInputs : RefreshTokens(t)
  \/ \E t \in TokenInputs \cup {NoToken} : RefreshRoute(t)
  \/ Tick

SpecEnv == InitEnv /\ [][NextEnv]_vars


\* ------------------------------------------ administrators and their own account
\* UserModel.deactivateUser: update usuarios set activo = false where id_usuario = userId
deactivateUser(U, userId) ==
  [u \in DOMAIN U |-> IF u = userId THEN [U[u] EXCEPT !.activo = FALSE] ELSE U[u]]

\* DELETE /api/users/:userId
DeactivateUser(token, userId) ==
  LET resp == [Resp("deactivateUser") EXCEPT !.uid = userId] IN
  /\ AdminGate(token)
  /\ UNCHANGED <<env, now, roles, usuario_roles, sesiones, serial, jwts, hist, reqs>>
  /\ IF findById(usuarios, userId) = NoId
     THEN last' = [resp EXCEPT !.code = "USER_NOT_FOUND"] /\ UNCHANGED usuarios
     ELSE IF userId = token.userId
     THEN last' = [resp EXCEPT !.code = "CANNOT_DEACTIVATE_SELF"] /\ UNCHANGED usuarios
     ELSE /\ usuarios' = deactivateUser(usuarios, userId)
          /\ last' = resp

\* the routes that set a user's active flag or delete a user, with register, login and
\* the approval that lets a registered user in; no route here makes a second administrator
NextSelf ==
  \/ \E e \in RegisterEmails, p \in RegisterPasswords : Register(e, p)
  \/ \E e \in LoginEmails, p \in LoginPasswords : Login(e, p)
  \/ \E j \in Bearers, u \in UserIds : ApproveUser(j, u)
  \/ \E j \in Bearers, u \in UserIds, a \in BOOLEAN : ToggleActive(j, u, a)
  \/ \E j \in Bearers, u \in UserIds : DeactivateUser(j, u)
  \/ \E j \in Bearers, u \in UserIds, d \in UpdateBodies : UpdateUser(j, u, d)
  \/ \E j \in Bearers, u \in UserIds, store \in DeleteOutcomes : DeleteUserPermanently(j, u, store)
  \/ Tick

SpecSelf == Init /\ [][NextSelf]_vars


\* ---------------------------------------------------- the bootstrap (migrate.js)
\* RoleModel.findByName: .eq('nombre', nombre).single(), the role's id_rol or null
findByName(R, nombre) == Single({r \in DOMAIN R : R[r] = nombre})

\* RoleModel.createRole: the insert takes the next serial id
createRole(R, nombre) ==
  LET id == IF DOMAIN R = {} THEN 1
            ELSE (CHOOSE m \in DOMAIN R : \A r \in DOMAIN R : r <= m) + 1
  IN (id :> nombre) @@ R

\* RoleModel.initializeDefaultRoles: 'admin', 'empleado', 'cliente', each created when
\* findByName does not find it
RECURSIVE initializeDefaultRoles(_, _)
initializeDefaultRoles(R, defaultRoles) ==
  IF defaultRoles = <<>> THEN R
  ELSE initializeDefaultRoles(
         IF findByName(R, Head(defaultRoles)) = NoId THEN createRole(R, Head(defaultRoles))
         ELSE R,
         Tail(defaultRoles))

\* UserModel.assignRole as createDefaultAdmin calls it.  With both ids undefined the
\* inserted object has no fields; the store either inserts a row of nulls (the migration
\* declares usuario_id and rol_id nullable) or refuses it
assignRoleOrNulls(UR, R, userId, rolId, store) ==
  IF userId = NoId \/ rolId = NoId
  THEN IF store = "ok" THEN [error |-> "", usuario_roles |-> UR \cup {<<userId, rolId>>}]
       ELSE [error |-> "23502", usuario_roles |-> UR]
  ELSE assignRole(UR, R, userId, rolId)

InitializeDefaultRoles ==
  /\ roles' = initializeDefaultRoles(roles, <<"admin", "empleado", "cliente">>)
  /\ last' = [Resp("initializeDefaultRoles") EXCEPT
                !.n = Cardinality(DOMAIN roles') - Cardinality(DOMAIN roles)]
  /\ UNCHANGED <<env, now, usuarios, usuario_roles, sesiones, serial, jwts, hist, reqs>>

\* createDefaultAdmin(email, password): findByEmail, createUser({email, password, nombre}),
\* findByName('admin'), assignRole(user.id, adminRole.id).  The rows createUser and
\* findByName return carry id_usuario and id_rol (their select lists), so user.id and
\* adminRole.id are undefined (NoId)
CreateDefaultAdmin(email, password, store) ==
  LET resp      == Resp("createDefaultAdmin")
      created   == createUser(usuarios, serial, email, password, FALSE, FALSE)
      adminRole == findByName(roles, "admin")
      assigned  == assignRoleOrNulls(usuario_roles, roles, NoId, NoId, store)
  IN
  /\ UNCHANGED <<env, now, roles, sesiones, jwts, hist, reqs>>
  /\ IF findByEmail(usuarios, email) # NoId
     THEN /\ last' = [resp EXCEPT !.code = "EXISTS", !.uid = findByEmail(usuarios, email)]
          /\ UNCHANGED <<usuarios, usuario_roles, serial>>
     ELSE IF created.error # ""
     THEN /\ last' = [resp EXCEPT !.code = created.error]
          /\ UNCHANGED <<usuarios, usuario_roles, serial>>
     ELSE /\ usuarios' = created.usuarios
          /\ serial' = [serial EXCEPT !.usuario = @ + 1]
          /\ IF adminRole = NoId
             THEN /\ UNCHANGED usuario_roles
                  /\ last' = [resp EXCEPT !.uid = created.id]
             ELSE /\ usuario_roles' = assigned.usuario_roles
                  /\ last' = [resp EXCEPT !.uid = created.id,
                                !.code = IF assigned.error = "" THEN "OK" ELSE "INTERNAL_ERROR"]

\* the store before the bootstrap: the tables exist and are empty
InitBoot ==
  /\ env = [REFRESH_TOKEN_EXPIRES_IN |-> Dur15m, JWT_EXPIRES_IN |-> Unset]
  /\ now = 0
  /\ roles = << >>
  /\ usuarios = << >>
  /\ usuario_roles = {}
  /\ sesiones = << >>
  /\ serial = [usuario |-> 1, sesion |-> 1, token |-> 1]
  /\ jwts = {}
  /\ last = Resp("init")
  /\ hist = [usos |-> [t \in TokenDomain |-> 0], cerradas |-> {}]
  /\ reqs = [p \in Procs |-> Idle]

NextBoot ==
  \/ InitializeDefaultRoles
  \/ \E e \in LoginEmails, w \in LoginPasswords, store \in StoreOutcomes :
       CreateDefaultAdmin(e, w, store)
  \/ \E e \in LoginEmails, w \in LoginPasswords : Login(e, w)

SpecBoot == InitBoot /\ [][NextBoot]_vars


\* ------------------------------------------------------------------- claims
\* the user is active and not locked
Live(u) == u \in DOMAIN usuarios /\ usuarios[u].activo /\ ~ usuarios[u].bloqueado

\* C1: refresh-token rotation is single-use.  refreshTokens succeeds at most once per
\* presented token; once it has succeeded no session record holds that token any more,
\* so a second call with it fails with INVALID_REFRESH_TOKEN or SESSION_EXPIRED; and the
\* first call does succeed for an active, unexpired session of an active, unlocked user.
C1_RotationSingleUse ==
  /\ [](/\ \A t \in TokenDomain : hist.usos[t] <= 1
        /\ \A t \in TokenDomain :
             hist.usos[t] = 1 => \A s \in DOMAIN sesiones : sesiones[s].refresh_token # t
        /\ (last.op = "refreshTokens" /\ hist.usos[last.tok] = 1 /\ last.code # "OK")
             => last.code \in {"INVALID_REFRESH_TOKEN", "SESSION_EXPIRED"})
  /\ [][\A t \in TokenInputs :
          (/\ last'.op = "refreshTokens"
           /\ RefreshTokens(t)
           /\ \E s \in DOMAIN sesiones : /\ sesiones[s].refresh_token = t
                                         /\ sesiones[s].activo
                                         /\ now < sesiones[s].fecha_expiracion
                                         /\ Live(sesiones[s].usuario_id))
          => last'.code = "OK" /\ hist'.usos[t] = 1]_vars

\* a rotated-away token is presented again and refused
C1_Witness ==
  /\ last.op = "refreshTokens"
  /\ last.code = "INVALID_REFRESH_TOKEN"
  /\ hist.usos[last.tok] = 1

\* C2: session invalidation is monotonic.  A session record with activo = false keeps
\* activo = false in every later state, and every refreshTokens or isValidSession call
\* that succeeds was made on a session that was active when the call started.
C2_InvalidationMonotonic ==
  [][/\ \A s \in DOMAIN sesiones :
          ~ sesiones[s].activo => s \in DOMAIN sesiones' /\ ~ sesiones'[s].activo
     /\ (last'.op \in {"refreshTokens", "isValidSession"} /\ last'.code = "OK")
          => sesiones[last'.sid].activo]_vars

\* a refresh is tried with the token of an invalidated session and refused
C2_Witness ==
  /\ last.op = "refreshTokens"
  /\ last.code = "INVALID_REFRESH_TOKEN"
  /\ \E s \in DOMAIN sesiones : sesiones[s].refresh_token = last.tok /\ ~ sesiones[s].activo

\* C3 (as stated): no login, refreshTokens or verifyAccessToken call succeeds for a user
\* who is inactive or locked, also when the account is deactivated or locked while the
\* call is in progress: the user is live when login writes its session, when
\* refreshTokens renews the session, and when verifyAccessToken answers.
C3_NoSuccessForDisabledUser ==
  [][/\ \A p \in Procs :
          (reqs[p].pc = "login_create" /\ reqs'[p].pc = "login_roles") => Live(reqs[p].uid)
     /\ \A p \in Procs :
          (reqs[p].pc = "refresh_renew" /\ reqs'[p].pc = "refresh_roles") => Live(reqs[p].uid)
     /\ (last'.op \in {"login", "refreshTokens", "verifyAccessToken"} /\ last' # last
         /\ last'.code = "OK" /\ \A p \in Procs : reqs[p].pc = "idle")
          => Live(last'.uid)]_vars

\* C4 (as stated): isValidSession(token) answers true exactly when a session with that
\* token exists with activo = true, the current time is strictly before its expiration,
\* and its user is active and not locked.
C4_ValidExactlyWhen ==
  [][\A t \in TokenInputs :
       (last'.op = "isValidSession" /\ IsValidSession(t)) =>
         (last'.code = "OK" <=>
            \E s \in DOMAIN sesiones : /\ sesiones[s].refresh_token = t
                                       /\ sesiones[s].activo
                                       /\ now < sesiones[s].fecha_expiracion
                                       /\ Live(sesiones[s].usuario_id))]_vars

\* isValidSession has answered true at the very instant of the session's expiration
C4_Witness ==
  /\ last.op = "isValidSession"
  /\ last.code = "OK"
  /\ now = sesiones[last.sid].fecha_expiracion

\* C5: lazy expiry.  When a validity check (isValidSession directly, or within
\* refreshTokens or the refresh route) found an active session past its expiration, the
\* session has activo = false when the check has returned.
C5_LazyExpiry ==
  (/\ last.op \in {"isValidSession", "refreshTokens", "refreshRoute"}
   /\ last.sid # NoId
   /\ now > sesiones[last.sid].fecha_expiracion)
  => ~ sesiones[last.sid].activo

\* a check has found the session of a live user expired and has deactivated it
C5_Witness ==
  /\ last.op \in {"isValidSession", "refreshTokens"}
  /\ last.code # "OK"
  /\ last.sid # NoId
  /\ now > sesiones[last.sid].fecha_expiracion
  /\ Live(sesiones[last.sid].usuario_id)
  /\ ~ sesiones[last.sid].activo

\* C6 (as stated): for every user with activo = true, login with the correct password
\* succeeds and creates a new session whose refresh token differs from every existing
\* session's; login with a wrong password fails with INVALID_CREDENTIALS, no session created.
C6_LoginActiveUser ==
  [][\A e \in LoginEmails, p \in LoginPasswords :
       (/\ last'.op = "login"
        /\ Login(e, p)
        /\ findByEmail(usuarios, e) # NoId
        /\ usuarios[findByEmail(usuarios, e)].activo)
       => IF verifyPassword(p, usuarios[findByEmail(usuarios, e)].password_hash)
          THEN /\ last'.code = "OK"
               /\ DOMAIN sesiones' = DOMAIN sesiones \cup {last'.sid}
               /\ last'.sid \notin DOMAIN sesiones
               /\ sesiones'[last'.sid].usuario_id = findByEmail(usuarios, e)
               /\ sesiones'[last'.sid].activo
               /\ \A s \in DOMAIN sesiones :
                    /\ sesiones'[s] = sesiones[s]
                    /\ sesiones[s].refresh_token # sesiones'[last'.sid].refresh_token
          ELSE /\ last'.code = "INVALID_CREDENTIALS"
               /\ sesiones' = sesiones]_vars

\* C6 (amended): the same for every user with activo = true and bloqueado = false.
C6_LoginActiveUnlockedUser ==
  [][\A e \in LoginEmails, p \in LoginPasswords :
       (/\ last'.op = "login"
        /\ Login(e, p)
        /\ findByEmail(usuarios, e) # NoId
        /\ Live(findByEmail(usuarios, e)))
       => IF verifyPassword(p, usuarios[findByEmail(usuarios, e)].password_hash)
          THEN /\ last'.code = "OK"
               /\ DOMAIN sesiones' = DOMAIN sesiones \cup {last'.sid}
               /\ last'.sid \notin DOMAIN sesiones
               /\ sesiones'[last'.sid].usuario_id = findByEmail(usuarios, e)
               /\ sesiones'[last'.sid].activo
               /\ \A s \in DOMAIN sesiones :
                    /\ sesiones'[s] = sesiones[s]
                    /\ sesiones[s].refresh_token # sesiones'[last'.sid].refresh_token
          ELSE /\ last'.code = "INVALID_CREDENTIALS"
               /\ sesiones' = sesiones]_vars

\* a live user's login with a wrong password has been refused
C6_Witness ==
  /\ last.op = "login"
  /\ last.code = "INVALID_CREDENTIALS"
  /\ last.uid # NoId
  /\ Live(last.uid)

C9_LogoutRevokesAccessToken ==
  (last.op = "getProfile" /\ last.sid \in hist.cerradas) => last.code = "INVALID_SESSION"

\* the profile request with the access token of a logged-out session has been served
C9_Witness ==
  /\ last.op = "getProfile"
  /\ last.code = "OK"
  /\ last.sid \in hist.cerradas

\* C10: logout answers success for every input.  Without a token it changes no session;
\* with a token it deactivates the sessions holding that token when the store applies
\* the update, changes no other session, and answers success when the store fails.
C10_LogoutAlwaysSucceeds ==
  [][\A t \in TokenInputs \cup {NoToken}, store \in StoreOutcomes :
       (last'.op = "logout" /\ Logout(t, store)) =>
         /\ last'.code = "OK"
         /\ t = NoToken => sesiones' = sesiones
         /\ DOMAIN sesiones' = DOMAIN sesiones
         /\ \A s \in DOMAIN sesiones :
              sesiones'[s] = IF sesiones[s].refresh_token = t /\ store = "ok"
                             THEN [sesiones[s] EXCEPT !.activo = FALSE]
                             ELSE sesiones[s]]_vars

\* logout has answered success although the store left the session active
C10_Witness ==
  /\ last.op = "logout"
  /\ last.code = "OK"
  /\ \E s \in DOMAIN sesiones : sesiones[s].refresh_token = last.tok /\ sesiones[s].activo

\* C11 (as stated): a refresh request fails with INVALID_REFRESH_TOKEN when the presented
\* token matches no session and with SESSION_EXPIRED when it matches a session that fails
\* the validity predicate, from refreshTokens and from POST /api/auth/refresh alike; in
\* particular the endpoint answers INVALID_REFRESH_TOKEN to a token already rotated away.
C11_RefreshErrors ==
  [][(last'.op \in {"refreshTokens", "refreshRoute"} /\ last'.tok # NoToken) =>
       /\ findByRefreshToken(sesiones, last'.tok) = NoId
            => last'.code = "INVALID_REFRESH_TOKEN"
       /\ (/\ findByRefreshToken(sesiones, last'.tok) # NoId
           /\ ~ isValidSession(sesiones, usuarios, last'.tok, now).valid)
            => last'.code = "SESSION_EXPIRED"
       /\ hist.usos[last'.tok] >= 1 => last'.code = "INVALID_REFRESH_TOKEN"]_vars

\* the refresh endpoint has answered INVALID_SESSION to a token that was rotated away
C11_Witness ==
  /\ last.op = "refreshRoute"
  /\ last.code = "INVALID_SESSION"
  /\ hist.usos[last.tok] = 1

\* C12: the access token a successful refreshTokens returns carries the role set stored
\* for the user when the refresh runs, not the set at login: it is issued for the
\* session's user with the names of the roles usuario_roles holds at that moment, also
\* when the roles were changed after the earlier token of the session was issued.
C12_RefreshRereadsRoles ==
  [][(last'.op = "refreshTokens" /\ last'.code = "OK") =>
       LET stored == {roles[ur[2]] : ur \in {x \in usuario_roles : x[1] = last'.uid}} IN
       /\ \E j \in jwts' : /\ j.userId = last'.uid
                            /\ j.sid = last'.sid
                            /\ j.exp > now
                            /\ j.roles = stored
       /\ \A j \in jwts' \ jwts : j.roles = stored]_vars

\* a refresh has succeeded on a session whose earlier access token carries other roles
\* than the store holds now
C12_Witness ==
  /\ last.op = "refreshTokens"
  /\ last.code = "OK"
  /\ \E j \in jwts : /\ j.sid = last.sid
                      /\ j.roles # RoleNames(usuario_roles, roles, last.uid)
  /\ \E j \in jwts : /\ j.sid = last.sid
                      /\ j.roles = RoleNames(usuario_roles, roles, last.uid)

\* C13: verifyAccessToken never throws; it returns the user exactly when the token is
\* validly signed and unexpired and its user exists, is active and is not locked at the
\* time of the verification, and null otherwise, whatever the account's state was when
\* the token was issued.
C13_VerifyAtUseTime ==
  [][\A j \in jwts \cup {Forged} :
       (last'.op = "verifyAccessToken" /\ VerifyAccessToken(j)) =>
         /\ last'.code \in {"OK", "NULL"}
         /\ last'.code = "OK" <=> (/\ j.firma
                                  /\ now < j.exp
                                  /\ j.userId \in DOMAIN usuarios
                                  /\ usuarios[j.userId].activo
                                  /\ ~ usuarios[j.userId].bloqueado)]_vars

\* an unexpired token of an approved user is refused while the account is deactivated
C13_Witness ==
  /\ last.op = "verifyAccessToken"
  /\ last.code = "NULL"
  /\ \E j \in jwts : j.userId = last.uid /\ j.sid = last.sid /\ j.firma /\ now < j.exp
  /\ ~ usuarios[last.uid].activo
  /\ clienteRoleId \in RoleIds(usuario_roles, last.uid)

\* C14: the access gate answers TOKEN_REQUIRED when no bearer token is present,
\* TOKEN_EXPIRED for an expired token, INVALID_TOKEN for a malformed or wrongly signed
\* one, ACCOUNT_DISABLED when the token's user is inactive and ACCOUNT_LOCKED when the
\* user is locked; the protected handler is reached only when none of these applies.
C14_GateCodes ==
  [][\A j \in jwts \cup {Forged, NoJwt} :
       (last'.op = "getProfile" /\ GetProfile(j)) =>
         /\ j = NoJwt => last'.code = "TOKEN_REQUIRED"
         /\ (j # NoJwt /\ ~ j.firma) => last'.code = "INVALID_TOKEN"
         /\ (j.firma /\ now >= j.exp) => last'.code = "TOKEN_EXPIRED"
         /\ (j.firma /\ now < j.exp /\ ~ usuarios[j.userId].activo)
              => last'.code = "ACCOUNT_DISABLED"
         /\ (j.firma /\ now < j.exp /\ usuarios[j.userId].activo
                                    /\ usuarios[j.userId].bloqueado)
              => last'.code = "ACCOUNT_LOCKED"
         /\ last'.code = "OK" => (/\ j # NoJwt
                                 /\ j.firma
                                 /\ now < j.exp
                                 /\ usuarios[j.userId].activo
                                 /\ ~ usuarios[j.userId].bloqueado)]_vars

\* the gate has answered TOKEN_EXPIRED to a token of a live user that had been issued
\* by the server
C14_Witness ==
  /\ last.op = "getProfile"
  /\ last.code = "TOKEN_EXPIRED"
  /\ Live(last.uid)
  /\ \E j \in jwts : j.userId = last.uid /\ j.sid = last.sid /\ now >= j.exp

\* C15 (as stated): requireOwnershipOrAdmin on /api/users/:userId lets the request pass
\* when the caller holds the admin role or when the caller's own user id is the one the
\* path names, and answers ACCESS_DENIED otherwise; a user who is not an administrator
\* can read and update their own user resource and nobody else's.
C15_OwnershipOrAdmin ==
  [][\A j \in Bearers, u \in UserIds :
       (/\ last'.op \in {"getUser", "updateUser"}
        /\ GetUser(j, u) \/ \E d \in UpdateBodies : UpdateUser(j, u, d))
       => (last'.code # "ACCESS_DENIED"
             <=> ("admin" \in RoleNames(usuario_roles, roles, j.userId) \/ j.userId = u))]_vars

\* a request on /api/users/:userId was denied although every user whose token the gate
\* accepts is an administrator or the user the path names
C15_Witness ==
  /\ last.op \in {"getUser", "updateUser"}
  /\ last.code = "ACCESS_DENIED"
  /\ \A j \in Bearers :
       "admin" \in RoleNames(usuario_roles, roles, j.userId) \/ j.userId = last.uid

\* C16: logoutAllSessions(userId, exceptSessionId) leaves every session of userId other
\* than exceptSessionId with activo = false, leaves the excepted session and every
\* session of other users unchanged, and returns exactly the number of sessions it
\* flipped from active to inactive.
C16_LogoutAllSessionsFrame ==
  [][last'.op = "logoutAllSessions" =>
       LET u == last'.uid          \* the userId of the call
           x == last'.sid          \* its exceptSessionId, NoId when none is given
       IN
         /\ DOMAIN sesiones' = DOMAIN sesiones
         /\ \A s \in DOMAIN sesiones :
              IF sesiones[s].usuario_id = u /\ s # x
              THEN sesiones'[s] = [sesiones[s] EXCEPT !.activo = FALSE]
              ELSE sesiones'[s] = sesiones[s]
         /\ last'.n = Cardinality({s \in DOMAIN sesiones :
                                     sesiones[s].activo /\ ~ sesiones'[s].activo})]_vars

\* logoutAllSessions has closed one session of a user and kept the excepted one active
C16_Witness ==
  /\ last.op = "logoutAllSessions"
  /\ last.n = 1
  /\ last.sid \in DOMAIN sesiones
  /\ sesiones[last.sid].usuario_id = last.uid
  /\ sesiones[last.sid].activo
  /\ \E s \in DOMAIN sesiones : s # last.sid /\ sesiones[s].usuario_id = last.uid

\* C17 (as stated): the invalidate-all-sessions endpoints (DELETE /api/sessions/all and
\* POST /api/auth/logout-all), called with a valid access token, invalidate every other
\* active session of the caller and leave the caller's current session active.
C17_InvalidateAllKeepsCurrent ==
  [][(/\ last'.op \in {"logoutAll", "sessionsDeleteAll"}
      /\ last'.sid \in DOMAIN sesiones
      /\ sesiones[last'.sid].activo) =>
       /\ last'.code = "OK"
       /\ sesiones'[last'.sid].activo
       /\ \A s \in DOMAIN sesiones :
            (sesiones[s].usuario_id = last'.uid /\ s # last'.sid) => ~ sesiones'[s].activo]_vars

\* logout-all has closed the only session of the caller, the one the caller's access
\* token was issued with
C17_Witness ==
  /\ last.op = "logoutAll"
  /\ last.n = 1
  /\ last.sid \in DOMAIN sesiones
  /\ sesiones[last.sid].usuario_id = last.uid
  /\ ~ sesiones[last.sid].activo
  /\ \A s \in DOMAIN sesiones : sesiones[s].usuario_id = last.uid => s = last.sid

\* C18: invalidate-one enforces ownership.  A call made on behalf of user A never
\* changes the activo flag (or anything else) of a session owned by another user B,
\* whatever session id is passed.
C18_InvalidateOneOwnership ==
  [][last'.op \in {"invalidateSession", "sessionsDelete"} =>
       /\ DOMAIN sesiones' = DOMAIN sesiones
       /\ \A s \in DOMAIN sesiones :
            sesiones[s].usuario_id # last'.uid => sesiones'[s] = sesiones[s]]_vars

\* a user has asked to invalidate another user's active session, which is still active
C18_Witness ==
  /\ last.op = "invalidateSession"
  /\ last.code = "OK"
  /\ last.sid \in DOMAIN sesiones
  /\ sesiones[last.sid].usuario_id # last.uid
  /\ sesiones[last.sid].activo

\* C19: every successful register creates exactly one user, with activo = false,
\* bloqueado = false and the role set exactly {colaborador} (pending approval), creates
\* exactly one new active session for that user, and returns an access token whose role
\* claims are the pending-approval role.
C19_RegisterCreatesPending ==
  [][(last'.op = "register" /\ last'.code = "OK") =>
       LET u == last'.uid
           s == last'.sid
       IN
       /\ u \notin DOMAIN usuarios
       /\ DOMAIN usuarios' = DOMAIN usuarios \cup {u}
       /\ \A v \in DOMAIN usuarios : usuarios'[v] = usuarios[v]
       /\ ~ usuarios'[u].activo
       /\ ~ usuarios'[u].bloqueado
       /\ usuario_roles' = usuario_roles \cup {<<u, colaboradorRoleId>>}
       /\ \A ur \in usuario_roles : ur[1] # u
       /\ s \notin DOMAIN sesiones
       /\ DOMAIN sesiones' = DOMAIN sesiones \cup {s}
       /\ \A x \in DOMAIN sesiones : sesiones'[x] = sesiones[x]
       /\ sesiones'[s].usuario_id = u
       /\ sesiones'[s].activo
       /\ \E j \in jwts' : j.userId = u /\ j.sid = s /\ j.firma
       /\ \A j \in jwts' : j.userId = u => j.roles = {roles[colaboradorRoleId]}]_vars

\* a registration has succeeded and left a pending account with its session
C19_Witness ==
  /\ last.op = "register"
  /\ last.code = "OK"
  /\ ~ usuarios[last.uid].activo
  /\ RoleNames(usuario_roles, roles, last.uid) = {"colaborador"}
  /\ sesiones[last.sid].usuario_id = last.uid

\* C20: register rejects, in this order, a malformed email with EMAIL_INVALID, a weak
\* password with PASSWORD_WEAK and an already registered email with
\* EMAIL_ALREADY_EXISTS; in each of these cases no user, role association or session is
\* created or changed.
C20_RegisterRejections ==
  [][\A e \in RegisterEmails, p \in RegisterPasswords :
       (last'.op = "register" /\ Register(e, p)) =>
         /\ e = EmailBad => last'.code = "EMAIL_INVALID"
         /\ (e # EmailBad /\ p = PwWeak) => last'.code = "PASSWORD_WEAK"
         /\ (/\ e # EmailBad
             /\ p # PwWeak
             /\ \E u \in DOMAIN usuarios : usuarios[u].email = toLowerCase(e))
              => last'.code = "EMAIL_ALREADY_EXISTS"
         /\ last'.code \in {"EMAIL_INVALID", "PASSWORD_WEAK", "EMAIL_ALREADY_EXISTS"}
              => UNCHANGED <<usuarios, usuario_roles, sesiones, jwts>>]_vars

\* the address of a registered user, written in another case, has been refused
C20_Witness ==
  /\ last.op = "register"
  /\ last.code = "EMAIL_ALREADY_EXISTS"
  /\ \E u \in DOMAIN usuarios : usuarios[u].email = toLowerCase(EmailUpper)

\* C21: in every reachable state no two user records have emails that are equal
\* ignoring case; of register calls whose emails differ only in letter case, run one
\* after the other or concurrently, the insert of exactly one succeeds and the others
\* fail with EMAIL_ALREADY_EXISTS; and login finds the account under any casing.
C21_EmailUniqueIgnoringCase ==
  /\ [](\A u, v \in DOMAIN usuarios :
          toLowerCase(usuarios[u].email) = toLowerCase(usuarios[v].email) => u = v)
  /\ [][/\ \A p \in Procs :
            (reqs[p].pc = "register_insert" /\ reqs'[p].pc # "register_insert") =>
              IF \E u \in DOMAIN usuarios :
                   toLowerCase(usuarios[u].email) = toLowerCase(reqs[p].email)
              THEN /\ last'.code = "EMAIL_ALREADY_EXISTS"
                   /\ usuarios' = usuarios
                   /\ reqs'[p].pc = "idle"
              ELSE /\ reqs'[p].pc = "register_role"
                   /\ Cardinality(DOMAIN usuarios') = Cardinality(DOMAIN usuarios) + 1
        /\ \A e \in LoginEmails :
            (/\ last'.op = "login"
             /\ \E w \in LoginPasswords : Login(e, w)
             /\ \E u \in DOMAIN usuarios : toLowerCase(usuarios[u].email) = toLowerCase(e))
            => /\ last'.uid # NoId
               /\ toLowerCase(usuarios[last'.uid].email) = toLowerCase(e)]_vars

\* of two registrations in flight for "a@b.c" and "A@b.c", one has inserted its user and
\* the other has just been refused
C21_Witness ==
  /\ last.op = "register"
  /\ last.code = "EMAIL_ALREADY_EXISTS"
  /\ \E p \in Procs : /\ reqs[p].pc \in {"register_role", "register_session", "register_roles"}
                      /\ toLowerCase(reqs[p].email) = usuarios[reqs[p].uid].email


\* C22 (as stated): changePassword fails with USER_NOT_FOUND when no user has the id,
\* with INVALID_CURRENT_PASSWORD when the current password does not match, and with
\* PASSWORD_WEAK when the new password is weak, tested in that order; on each failure
\* the stored credential of every user is unchanged.
C22_ChangePasswordErrors ==
  [][last'.op = "changePassword" =>
       LET u == last'.uid IN
       \A c \in LoginPasswords, n \in NewPasswords, store \in StoreOutcomes :
         ChangePassword(u, c, n, store) =>
           /\ last'.code =
                IF u \notin DOMAIN usuarios THEN "USER_NOT_FOUND"
                ELSE IF ~ verifyPassword(c, usuarios[u].password_hash)
                THEN "INVALID_CURRENT_PASSWORD"
                ELSE IF ~ validatePassword(n).isValid THEN "PASSWORD_WEAK"
                ELSE IF store = "error" THEN "STORE_ERROR"
                ELSE "OK"
           /\ last'.code # "OK" => usuarios' = usuarios]_vars

\* C22 (for the ids that exist): the current password is verified before the strength of
\* the new one is tested, and a failed change leaves every credential as it was
C22_ExistingUserErrors ==
  [][last'.op = "changePassword" /\ last'.uid \in DOMAIN usuarios =>
       LET u == last'.uid IN
       \A c \in LoginPasswords, n \in NewPasswords, store \in StoreOutcomes :
         ChangePassword(u, c, n, store) =>
           /\ last'.code =
                IF ~ verifyPassword(c, usuarios[u].password_hash)
                THEN "INVALID_CURRENT_PASSWORD"
                ELSE IF ~ validatePassword(n).isValid THEN "PASSWORD_WEAK"
                ELSE IF store = "error" THEN "STORE_ERROR"
                ELSE "OK"
           /\ last'.code # "OK" => usuarios' = usuarios]_vars

\* changePassword was called with an id that no user has, and threw something that is
\* not USER_NOT_FOUND
C22_Witness ==
  /\ last.op = "changePassword"
  /\ last.uid \notin DOMAIN usuarios
  /\ last.code = "TypeError"
  /\ Cardinality(DOMAIN usuarios) = 2


\* a refresh token that a refresh would accept now
Refreshable(S, U, refreshToken) ==
  /\ findByRefreshToken(S, refreshToken) # NoId
  /\ isValidSession(S, U, refreshToken, now).valid

\* C23 (as stated): after a successful changePassword, login with the old password fails
\* with INVALID_CREDENTIALS and login with the new password succeeds, and every session
\* of the user that was active before the change is still active and can still be
\* refreshed.
C23_PasswordReplaced ==
  [][last'.op = "changePassword" /\ last'.code = "OK" =>
       LET u == last'.uid IN
       \A c \in LoginPasswords, n \in NewPasswords :
         ChangePassword(u, c, n, "ok") =>
           /\ loginCheck(usuarios', usuarios[u].email, c) = "INVALID_CREDENTIALS"
           /\ loginCheck(usuarios', usuarios[u].email, n) = "OK"
           /\ sesiones' = sesiones
           /\ \A t \in TokenInputs :
                Refreshable(sesiones, usuarios, t) => Refreshable(sesiones', usuarios', t)]_vars

\* C23 (amended): after a successful changePassword of a user who is active and not
\* locked, to a new password that differs from the old one, login with the old password
\* fails with INVALID_CREDENTIALS and login with the new one passes every test of login;
\* whoever the user and whatever the new password, no session is changed and every
\* refresh token that could be refreshed before the change can be refreshed after it.
C23_PasswordReplacedWhenDifferent ==
  [][last'.op = "changePassword" /\ last'.code = "OK" =>
       LET u == last'.uid IN
       \A c \in LoginPasswords, n \in NewPasswords :
         ChangePassword(u, c, n, "ok") =>
           /\ (usuarios[u].activo /\ ~ usuarios[u].bloqueado /\ n # c) =>
                /\ loginCheck(usuarios', usuarios[u].email, c) = "INVALID_CREDENTIALS"
                /\ loginCheck(usuarios', usuarios[u].email, n) = "OK"
           /\ sesiones' = sesiones
           /\ \A t \in TokenInputs :
                Refreshable(sesiones, usuarios, t) => Refreshable(sesiones', usuarios', t)]_vars

\* an active user with a session that can be refreshed has just replaced the password
\* they registered with
C23_Witness ==
  /\ last.op = "changePassword" /\ last.code = "OK"
  /\ last.uid \in DOMAIN usuarios
  /\ usuarios[last.uid].activo /\ ~ usuarios[last.uid].bloqueado
  /\ usuarios[last.uid].password_hash = hashPassword(PwOther)
  /\ \E s \in DOMAIN sesiones :
       /\ sesiones[s].usuario_id = last.uid
       /\ Refreshable(sesiones, usuarios, sesiones[s].refresh_token)


\* the user's active and locked flags and the set of roles the user holds
Standing(U, UR, u) == <<U[u].activo, U[u].bloqueado, RoleIds(UR, u)>>

\* C24 (as stated): approveUser is all-or-nothing: after it succeeds on a user holding
\* the pending-approval role the user is active, not locked and holds exactly the client
\* role; after it fails (USER_NOT_FOUND, NOT_PENDING_APPROVAL or a store error in one of
\* its writes) the user's active and locked flags and role set are unchanged.
C24_ApproveAllOrNothing ==
  [][last'.op = "approveUser" =>
       LET u == last'.uid IN
       IF last'.code = "OK"
       THEN /\ colaboradorRoleId \in RoleIds(usuario_roles, u)
            /\ Standing(usuarios', usuario_roles', u) = <<TRUE, FALSE, {clienteRoleId}>>
       ELSE /\ DOMAIN usuarios' = DOMAIN usuarios
            /\ u \in DOMAIN usuarios =>
                 Standing(usuarios', usuario_roles', u) = Standing(usuarios, usuario_roles, u)]_vars

\* C24 (without store errors): an approveUser whose writes all go through ends as the
\* claim says, and one refused with USER_NOT_FOUND or NOT_PENDING_APPROVAL writes nothing
C24_ApproveWhenStoreAnswers ==
  [][last'.op = "approveUser" /\ last'.code # "INTERNAL_ERROR" =>
       LET u == last'.uid IN
       IF last'.code = "OK"
       THEN /\ colaboradorRoleId \in RoleIds(usuario_roles, u)
            /\ Standing(usuarios', usuario_roles', u) = <<TRUE, FALSE, {clienteRoleId}>>
       ELSE /\ usuarios' = usuarios
            /\ usuario_roles' = usuario_roles]_vars

\* approveUser answered with an error and left the user active while still holding the
\* pending-approval role
C24_Witness ==
  /\ last.op = "approveUser" /\ last.code = "INTERNAL_ERROR"
  /\ last.uid \in DOMAIN usuarios
  /\ usuarios[last.uid].activo
  /\ colaboradorRoleId \in RoleIds(usuario_roles, last.uid)


\* the users holding the pending-approval role
Pending(UR) == {ur[1] : ur \in {x \in UR : x[2] = colaboradorRoleId}}

\* C25 (as stated): approveUser is the only operation that takes a user out of the
\* pending state: no other operation (toggle-active, update user, assign role, remove
\* role, change role) makes a user that holds the pending-approval role active or
\* changes that user's role set, so in every reachable state a user holding the
\* pending-approval role cannot log in.
C25_OnlyApproveLeavesPending ==
  /\ [][last'.op \in {"toggleActive", "updateUser", "assignRole", "removeRole", "changeRole"} =>
          \A u \in Pending(usuario_roles) \cap DOMAIN usuarios :
            /\ usuarios'[u].activo => usuarios[u].activo
            /\ RoleIds(usuario_roles', u) = RoleIds(usuario_roles, u)]_vars
  /\ [](\A u \in Pending(usuario_roles) \cap DOMAIN usuarios, w \in LoginPasswords :
          loginCheck(usuarios, usuarios[u].email, w) # "OK")

\* C25 (the part that holds): register leaves the new user pending and inactive, and
\* changeRole refuses a user who holds the pending-approval role and writes nothing
C25_ChangeRoleRefusesPending ==
  [][/\ (last'.op = "register" /\ last'.code = "OK") =>
          /\ last'.uid \in Pending(usuario_roles')
          /\ ~ usuarios'[last'.uid].activo
     /\ (last'.op = "changeRole" /\ last'.uid \in Pending(usuario_roles) \cap DOMAIN usuarios) =>
          /\ last'.code = "USER_PENDING_APPROVAL"
          /\ usuarios' = usuarios /\ usuario_roles' = usuario_roles]_vars

\* toggle-active has just answered OK for a user who holds the pending-approval role,
\* and that user now passes every test of login
C25_Witness ==
  /\ last.op = "toggleActive" /\ last.code = "OK"
  /\ last.uid \in Pending(usuario_roles) \cap DOMAIN usuarios
  /\ loginCheck(usuarios, usuarios[last.uid].email, PwGood) = "OK"


\* C26 (as stated): changeRole is atomic with respect to the observed role set: a
\* concurrent read of the user's roles (by login or refresh) never observes an empty role
\* set between the removal of the old role and the assignment of the new one, and after
\* any interleaving of changeRole calls on the same user the user never holds two roles
\* at once.
C26_ChangeRoleAtomic ==
  /\ [][(last'.op \in {"login", "refreshTokens"} /\ last'.code = "OK") =>
          \A j \in jwts' \ jwts : j.roles # {}]_vars
  /\ [](\A u \in DOMAIN usuarios : Cardinality(RoleIds(usuario_roles, u)) <= 1)

\* a login answered OK with an access token that carries no role, while a changeRole on
\* that user is between its two writes
C26_Witness ==
  /\ last.op = "login" /\ last.code = "OK"
  /\ \E j \in jwts : j.userId = last.uid /\ j.sid = last.sid /\ j.roles = {}
  /\ \E p \in Procs : reqs[p].pc = "changeRole_assign" /\ reqs[p].uid = last.uid


\* C27 (as stated): permanent delete fails cleanly: when deleting the user record is
\* refused because other data references it, the operation reports
\* USER_HAS_DEPENDENCIES and the user record and its role associations are the same as
\* before the call.
C27_DeleteFailsCleanly ==
  [][last'.op = "deleteUserPermanently" =>
       \A j \in Bearers :
         DeleteUserPermanently(j, last'.uid, "23503") =>
           IF last'.uid \in DOMAIN usuarios \ {j.userId}
           THEN /\ last'.code = "USER_HAS_DEPENDENCIES"
                /\ usuarios' = usuarios
                /\ usuario_roles' = usuario_roles
           ELSE last'.code \in {"USER_NOT_FOUND", "CANNOT_DELETE_SELF"}]_vars

\* C27 (the part that holds): a refused delete reports USER_HAS_DEPENDENCIES and leaves
\* the user record and the sessions as they were
C27_RefusedDeleteKeepsUser ==
  [][last'.op = "deleteUserPermanently" =>
       \A j \in Bearers :
         DeleteUserPermanently(j, last'.uid, "23503") =>
           IF last'.uid \in DOMAIN usuarios \ {j.userId}
           THEN /\ last'.code = "USER_HAS_DEPENDENCIES"
                /\ usuarios' = usuarios
                /\ sesiones' = sesiones
           ELSE last'.code \in {"USER_NOT_FOUND", "CANNOT_DELETE_SELF"}]_vars

\* a permanent delete was refused with USER_HAS_DEPENDENCIES and the user, still there,
\* holds no role any more
C27_Witness ==
  /\ last.op = "deleteUserPermanently" /\ last.code = "USER_HAS_DEPENDENCIES"
  /\ last.uid \in DOMAIN usuarios
  /\ RoleIds(usuario_roles, last.uid) = {}

\* C28 (as stated): session records are never physically removed: across every sequence
\* of operations (logout, invalidate-one, invalidate-all, expiry sweep, refresh,
\* permanent user delete) the set of session record identifiers only grows, and a
\* session ends only by its active flag becoming false.
C28_SessionsNeverRemoved ==
  [][/\ DOMAIN sesiones \subseteq DOMAIN sesiones'
     /\ \A s \in DOMAIN sesiones :
          sesiones'[s].usuario_id = sesiones[s].usuario_id]_vars

\* C28 (every operation but the permanent delete): logout, invalidate-one,
\* invalidate-all, the expiry sweep, refresh, login and register remove no session
\* record
C28_OnlyDeleteRemovesSessions ==
  [][last'.op # "deleteUserPermanently" =>
       /\ DOMAIN sesiones \subseteq DOMAIN sesiones'
       /\ \A s \in DOMAIN sesiones :
            sesiones'[s].usuario_id = sesiones[s].usuario_id]_vars

\* a permanent delete has answered OK and a session record created earlier is gone
C28_Witness ==
  /\ last.op = "deleteUserPermanently" /\ last.code = "OK"
  /\ \E s \in 1..(serial.sesion - 1) : s \notin DOMAIN sesiones

\* C29: cleanExpiredSessions sets activo = false on exactly the sessions that are active
\* and past their expiration, returns their number and changes no other session; run
\* interleaved with login, refresh and logout it never deactivates a session whose
\* expiration is still in the future, and a second run at the same instant returns 0
\* (the sweep leaves no row it would update, and no step that leaves the clock where it
\* is makes one).
C29_SweepFrame ==
  /\ [][CleanExpiredSessions =>
          LET past == {s \in DOMAIN sesiones :
                         sesiones[s].activo /\ sesiones[s].fecha_expiracion < now}
          IN
          /\ DOMAIN sesiones' = DOMAIN sesiones
          /\ \A s \in DOMAIN sesiones :
               sesiones'[s] = IF s \in past THEN [sesiones[s] EXCEPT !.activo = FALSE]
                              ELSE sesiones[s]
          /\ last'.n = Cardinality(past)
          /\ \A s \in DOMAIN sesiones :
               (sesiones[s].activo /\ sesiones[s].fecha_expiracion > now) => sesiones'[s].activo
          /\ {s \in DOMAIN sesiones' :
                sesiones'[s].activo /\ sesiones'[s].fecha_expiracion < now} = {}]_vars
  /\ [][now' = now =>
          \A s \in DOMAIN sesiones' :
            (sesiones'[s].activo /\ sesiones'[s].fecha_expiracion < now) =>
              /\ s \in DOMAIN sesiones
              /\ sesiones[s].activo /\ sesiones[s].fecha_expiracion < now]_vars

\* the sweep has just deactivated a session past its expiration while another session,
\* not yet expired, stays active and a request is in flight
C29_Witness ==
  /\ last.op = "cleanExpiredSessions" /\ last.n >= 1
  /\ \E s \in DOMAIN sesiones : ~ sesiones[s].activo /\ sesiones[s].fecha_expiracion < now
  /\ \E s \in DOMAIN sesiones : sesiones[s].activo /\ sesiones[s].fecha_expiracion > now
  /\ \E p \in Procs : reqs[p].pc # "idle"

\* C30 (as stated): every business-rule outcome of register, login, refresh, logout,
\* logout-all and change-password (wrong password, unknown user, disabled or locked
\* account, duplicate email, unknown, rotated or expired refresh token) is reported with
\* its specific error code; none of them reaches the caller as INTERNAL_ERROR.
C30_NoInternalError ==
  [](last.op \in {"register", "login", "refreshTokens", "logout", "logoutAll",
                  "changePasswordRequest"}
       => last.code \in
            {"OK", "EMAIL_INVALID", "PASSWORD_WEAK", "EMAIL_ALREADY_EXISTS",
             "INVALID_CREDENTIALS", "ACCOUNT_DISABLED", "ACCOUNT_LOCKED",
             "INVALID_REFRESH_TOKEN", "SESSION_EXPIRED", "USER_NOT_FOUND",
             "INVALID_CURRENT_PASSWORD", "VALIDATION_ERROR"})

\* C30 (where it holds): INTERNAL_ERROR is answered only to a refresh whose token a
\* concurrent request took away after the checks, and to a change-password for an id
\* that no user has
C30_InternalErrorOnlyThere ==
  [](last.code = "INTERNAL_ERROR" =>
       \/ last.op = "refreshTokens" /\ last.sid # NoId
       \/ last.op = "changePasswordRequest" /\ last.uid \notin DOMAIN usuarios)

\* a refresh was answered INTERNAL_ERROR: its token had passed findByRefreshToken and
\* isValidSession and was rotated by another refresh before its own renewSession
C30_Witness ==
  /\ last.op = "refreshTokens" /\ last.code = "INTERNAL_ERROR"
  /\ last.tok \in TokenInputs
  /\ hist.usos[last.tok] = 1

\* the store without the user u
WithoutUser(U, u) == [v \in DOMAIN U \ {u} |-> U[v]]

\* C31 (as stated): login does not reveal whether an account exists: for any email and
\* any password that is not that account's password, the error code login returns is
\* the same whether or not a user with that email is registered, whatever the registered
\* account's active / locked state.
C31_LoginHidesAccounts ==
  \A e \in LoginEmails, w \in LoginPasswords :
    LET u == findByEmail(usuarios, e) IN
    (u # NoId /\ ~ verifyPassword(w, usuarios[u].password_hash))
      => loginCheck(usuarios, e, w) = loginCheck(WithoutUser(usuarios, u), e, w)

\* C31 (amended): for an account that is active and not locked, login with a password
\* that is not the account's answers INVALID_CREDENTIALS, the code it answers for an
\* email no user has.
C31_LoginHidesActiveAccounts ==
  \A e \in LoginEmails, w \in LoginPasswords :
    LET u == findByEmail(usuarios, e) IN
    (/\ u # NoId
     /\ usuarios[u].activo /\ ~ usuarios[u].bloqueado
     /\ ~ verifyPassword(w, usuarios[u].password_hash))
      => /\ loginCheck(usuarios, e, w) = "INVALID_CREDENTIALS"
         /\ loginCheck(WithoutUser(usuarios, u), e, w) = "INVALID_CREDENTIALS"

\* login has just refused a wrong password for a registered, active, unlocked account
\* that is not the administrator's
C31_Witness ==
  /\ last.op = "login" /\ last.code = "INVALID_CREDENTIALS"
  /\ last.uid \in DOMAIN usuarios \ {1}
  /\ usuarios[last.uid].activo /\ ~ usuarios[last.uid].bloqueado

\* C32: validatePassword(p) is valid exactly when p has at least 8 characters and
\* contains an uppercase letter, a lowercase letter, a digit and a character of the
\* fixed special set; when invalid it reports every violated rule, not only the first
\* ("short1!" reports the length rule, "alllowercase1!" the missing uppercase,
\* "GOOD-Pass123!" is valid).
C32_ValidatePassword ==
  last.op = "validatePassword" =>
    LET p == reqs[1].password
        reported == {last.details[i] : i \in DOMAIN last.details}
        has(class) == \E i \in DOMAIN p : p[i] \in class
    IN
    /\ last.code = "OK" <=> /\ Len(p) >= 8
                            /\ has(65..90) /\ has(97..122) /\ has(48..57)
                            /\ has(SpecialChars)
    /\ last.code = "OK" <=> reported = {}
    /\ "minLength" \in reported <=> Len(p) < 8
    /\ "upperCase" \in reported <=> ~ has(65..90)
    /\ "lowerCase" \in reported <=> ~ has(97..122)
    /\ "number" \in reported <=> ~ has(48..57)
    /\ "specialChar" \in reported <=> ~ has(SpecialChars)
    /\ p = PwWeak => "minLength" \in reported
    /\ p = PwAllLower => "upperCase" \in reported
    /\ p = PwDashed => last.code = "OK"

\* "short1!" has been validated and two rules are reported for it
C32_Witness ==
  /\ last.op = "validatePassword"
  /\ reqs[1].password = PwWeak
  /\ Len(last.details) = 2

\* the refresh of request p has just been answered
RefreshAnswered(p) ==
  /\ reqs[p].pc \in {"refresh_check", "refresh_renew", "refresh_roles"}
  /\ reqs'[p].pc = "idle"

\* C33 (as stated): when two refreshTokens calls with the same token interleave at the
\* level of individual store operations, at most one of them succeeds, the session never
\* has two valid refresh tokens, and the losing call fails with INVALID_REFRESH_TOKEN
\* rather than with an unstructured internal error.
C33_RefreshRace ==
  /\ [](\A t \in TokenDomain : hist.usos[t] <= 1)
  /\ [](\A t \in TokenDomain :
          /\ Cardinality({s \in DOMAIN sesiones : sesiones[s].refresh_token = t}) <= 1
          /\ hist.usos[t] >= 1 => findByRefreshToken(sesiones, t) = NoId)
  /\ [][\A p \in Procs :
          (RefreshAnswered(p) /\ hist.usos[reqs[p].tok] = 1 /\ reqs[p].pc # "refresh_roles")
            => last'.code = "INVALID_REFRESH_TOKEN"]_vars

\* C33 (without the loser's code): at most one refresh of a token succeeds, and a token
\* that was rotated away is the token of no session
C33_OneWinner ==
  /\ [](\A t \in TokenDomain : hist.usos[t] <= 1)
  /\ [](\A t \in TokenDomain :
          /\ Cardinality({s \in DOMAIN sesiones : sesiones[s].refresh_token = t}) <= 1
          /\ hist.usos[t] >= 1 => findByRefreshToken(sesiones, t) = NoId)
  /\ [][\A p \in Procs :
          (RefreshAnswered(p) /\ hist.usos[reqs[p].tok] = 1 /\ reqs[p].pc # "refresh_roles")
            => last'.code \in {"SESSION_EXPIRED", "INTERNAL_ERROR"} /\ sesiones' = sesiones]_vars

\* the loser of a refresh race was answered INTERNAL_ERROR while the session it named
\* is active under the winner's new token
C33_Witness ==
  /\ last.op = "refreshTokens" /\ last.code = "INTERNAL_ERROR"
  /\ last.tok \in TokenInputs /\ hist.usos[last.tok] = 1
  /\ last.sid \in DOMAIN sesiones
  /\ sesiones[last.sid].activo /\ sesiones[last.sid].refresh_token # last.tok


\* C34 (as stated): when logout(t) returns, the session that held t at the moment logout
\* was called is inactive, whatever refreshTokens(t) did in between
C34_LogoutEndsSession ==
  [][\A p \in Procs :
       (LogoutWrite(p, "ok") /\ reqs[p].sid # NoId) => ~ sesiones'[reqs[p].sid].activo]_vars

\* C34 (what holds): when logout(t) returns, every session that holds t at the moment
\* of the store's update is inactive; the session that held t at the call is inactive
\* when no refresh has rotated its token since
C34_LogoutEndsHolder ==
  [][\A p \in Procs :
       LogoutWrite(p, "ok") =>
         /\ \A s \in DOMAIN sesiones :
              sesiones[s].refresh_token = reqs[p].tok => ~ sesiones'[s].activo
         /\ (reqs[p].sid # NoId /\ hist.usos[reqs[p].tok] = 0)
              => ~ sesiones'[reqs[p].sid].activo]_vars

\* a logout has answered and the session that held its token when it was called is
\* still active, under the token a refresh gave it in between
C34_Witness ==
  /\ last.op = "logout" /\ last.code = "OK"
  /\ last.sid \in DOMAIN sesiones
  /\ sesiones[last.sid].activo
  /\ sesiones[last.sid].refresh_token # last.tok
  /\ hist.usos[last.tok] = 1


\* C35: a validity check that rejects a session because its user is inactive or locked
\* marks the session inactive; no request makes an inactive session active again or
\* gives it another token, and a refresh succeeds only on a token that an active session
\* holds: after the account is re-activated or unlocked, a refresh with the old token
\* still fails
C35_RejectedStaysClosed ==
  /\ [][\A t \in TokenInputs :
          LET s == findByRefreshToken(sesiones, t) IN
          (/\ last'.op \in {"isValidSession", "refreshTokens", "refreshRoute"}
           /\ last'.tok = t
           /\ s # NoId
           /\ \/ ~ usuarios[sesiones[s].usuario_id].activo
              \/ usuarios[sesiones[s].usuario_id].bloqueado)
            => /\ last'.code \in {"FALSE", "SESSION_EXPIRED"}
               /\ ~ sesiones'[s].activo]_vars
  /\ [][\A s \in DOMAIN sesiones :
          ~ sesiones[s].activo
            => /\ ~ sesiones'[s].activo
               /\ sesiones'[s].refresh_token = sesiones[s].refresh_token]_vars
  /\ [][(last'.op \in {"refreshTokens", "refreshRoute"} /\ last'.code = "OK")
          => findByRefreshToken(sesiones, last'.tok) # NoId]_vars

\* a refresh was refused for the token of a session that is inactive although its
\* expiry has not passed, while its user is active and unlocked again
C35_Witness ==
  /\ last.op = "refreshTokens" /\ last.code = "INVALID_REFRESH_TOKEN"
  /\ \E s \in DOMAIN sesiones :
       /\ sesiones[s].refresh_token = last.tok
       /\ ~ sesiones[s].activo
       /\ now <= sesiones[s].fecha_expiracion
       /\ usuarios[sesiones[s].usuario_id].activo
       /\ ~ usuarios[sesiones[s].usuario_id].bloqueado


\* C36 (as stated): when register fails after its user record was created (the role
\* assignment or the session creation fails), no user record with that email remains
C36_RegisterAllOrNothing ==
  [][\A p \in Procs :
       (RegisterRoleFails(p) \/ RegisterSessionFails(p))
         => ~ \E u \in DOMAIN usuarios' : usuarios'[u].email = toLowerCase(reqs[p].email)]_vars

\* C36 (what holds): a register that fails in its validations or at its insert leaves
\* the user records as they were; one that fails after the insert leaves its user record
\* in place, so that registering the same email again is refused by the insert
C36_RegisterLeavesUser ==
  /\ [][\A p \in Procs :
          (RegisterRoleFails(p) \/ RegisterSessionFails(p))
            => /\ usuarios' = usuarios
               /\ reqs[p].uid \in DOMAIN usuarios'
               /\ usuarios'[reqs[p].uid].email = toLowerCase(reqs[p].email)
               /\ createUser(usuarios', serial', reqs[p].email, reqs[p].password,
                             FALSE, FALSE).error = "EMAIL_ALREADY_EXISTS"]_vars
  /\ [][\A p \in Procs :
          (/\ reqs[p].pc \in {"idle", "register_insert"}
           /\ reqs'[p].pc = "idle"
           /\ last'.op = "register" /\ last' # last)
            => usuarios' = usuarios]_vars

\* a register was refused with EMAIL_ALREADY_EXISTS while the only record it can
\* collide with is one a failed register left: no session ever belonged to it and no
\* register is in flight
C36_Witness ==
  /\ last.op = "register" /\ last.code = "EMAIL_ALREADY_EXISTS"
  /\ \A p \in Procs : reqs[p].pc = "idle"
  /\ \E u \in DOMAIN usuarios :
       /\ usuarios[u].email = EmailLower
       /\ \A s \in DOMAIN sesiones : sesiones[s].usuario_id # u


\* the sessions the three expiry tests are compared on: active, of an active and
\* unlocked user
Usable(s) ==
  /\ sesiones[s].activo
  /\ usuarios[sesiones[s].usuario_id].activo
  /\ ~ usuarios[sesiones[s].usuario_id].bloqueado

\* C37 (as stated): at every instant, for an active session of an active, unlocked user,
\* isValidSession accepts it exactly when getActiveSessions lists it and exactly when
\* cleanExpiredSessions would not deactivate it
C37_ExpiryTestsAgree ==
  \A s \in DOMAIN sesiones :
    Usable(s) =>
      LET valid  == isValidSession(sesiones, usuarios, sesiones[s].refresh_token, now).valid
          listed == s \in getActiveSessions(sesiones, sesiones[s].usuario_id, now)
          swept  == ~ cleanExpiredSessions(sesiones, now)[s].activo
      IN /\ valid <=> listed
         /\ valid <=> ~ swept

\* C37 (what holds): isValidSession accepts the session exactly when cleanExpiredSessions
\* would not deactivate it; getActiveSessions lists only sessions isValidSession accepts,
\* and leaves an accepted one out only at the instant now = expiration
C37_ExpiryTestsAgreeButAtExpiry ==
  \A s \in DOMAIN sesiones :
    Usable(s) =>
      LET valid  == isValidSession(sesiones, usuarios, sesiones[s].refresh_token, now).valid
          listed == s \in getActiveSessions(sesiones, sesiones[s].usuario_id, now)
          swept  == ~ cleanExpiredSessions(sesiones, now)[s].activo
      IN /\ valid <=> ~ swept
         /\ listed => valid
         /\ (valid /\ ~ listed) <=> now = sesiones[s].fecha_expiracion

\* isValidSession has just accepted a session at the instant of its expiration, which
\* getActiveSessions does not list
C37_Witness ==
  /\ last.op = "isValidSession" /\ last.code = "OK"
  /\ last.sid \in DOMAIN sesiones
  /\ Usable(last.sid)
  /\ now = sesiones[last.sid].fecha_expiracion
  /\ last.sid \notin getActiveSessions(sesiones, sesiones[last.sid].usuario_id, now)


\* C38 (as stated): for every configured REFRESH_TOKEN_EXPIRES_IN, a successful refresh
\* sets the session's expiration to the refresh time plus that lifetime, the lifetime
\* login and register give the sessions they create
C38_RefreshUsesConfiguredLifetime ==
  [][(last'.op = "refreshTokens" /\ last'.code = "OK")
       => sesiones'[last'.sid].fecha_expiracion = getExpirationDate(RefreshTTL, now)]_vars

\* C38 (what holds): login and register give the session they create the configured
\* lifetime (seven days when none is configured); a successful refresh sets the
\* expiration to the refresh time plus seven days, whatever is configured
C38_RefreshUsesSevenDays ==
  /\ [][(last'.op \in {"login", "register"} /\ last'.code = "OK")
          => sesiones'[last'.sid].fecha_expiracion = getExpirationDate(RefreshTTL, now)]_vars
  /\ [][(last'.op = "refreshTokens" /\ last'.code = "OK")
          => sesiones'[last'.sid].fecha_expiracion = now + 7 * 1440]_vars

\* with a lifetime of 15 minutes configured, a refresh has just succeeded and its
\* session expires seven days later
C38_Witness ==
  /\ env.REFRESH_TOKEN_EXPIRES_IN = Dur15m
  /\ last.op = "refreshTokens" /\ last.code = "OK"
  /\ sesiones[last.sid].fecha_expiracion = now + 7 * 1440
  /\ sesiones[last.sid].fecha_expiracion # getExpirationDate(RefreshTTL, now)


\* C39 (as stated): every user-administration request by which an administrator would
\* set their own active flag to false or delete their own record is refused with
\* CANNOT_DEACTIVATE_SELF or CANNOT_DELETE_SELF and leaves the account unchanged
C39_AdminKeepsOwnAccount ==
  [][\A j \in Bearers :
       (/\ AdminGate(j)
        /\ \/ ToggleActive(j, j.userId, FALSE)
           \/ DeactivateUser(j, j.userId)
           \/ UpdateUser(j, j.userId, [activo |-> FALSE])
           \/ \E store \in DeleteOutcomes : DeleteUserPermanently(j, j.userId, store))
         => /\ last'.code \in {"CANNOT_DEACTIVATE_SELF", "CANNOT_DELETE_SELF"}
            /\ usuarios' = usuarios]_vars

\* C39 (what holds): the refusal is given by PATCH /:userId/toggle-active, by
\* DELETE /:userId and by DELETE /:userId/permanent
C39_AdminKeepsOwnAccountOnThreeRoutes ==
  [][\A j \in Bearers :
       (/\ AdminGate(j)
        /\ \/ ToggleActive(j, j.userId, FALSE)
           \/ DeactivateUser(j, j.userId)
           \/ \E store \in DeleteOutcomes : DeleteUserPermanently(j, j.userId, store))
         => /\ last'.code \in {"CANNOT_DEACTIVATE_SELF", "CANNOT_DELETE_SELF"}
            /\ usuarios' = usuarios /\ usuario_roles' = usuario_roles
            /\ sesiones' = sesiones]_vars

\* the only administrator has been deactivated through PUT /:userId, a request that
\* only an administrator or the account's owner can make
C39_Witness ==
  /\ last.op = "updateUser" /\ last.code = "OK" /\ last.uid = 1
  /\ ~ usuarios[1].activo
  /\ \A ur \in usuario_roles : ur[2] = 1 => ur[1] = 1


\* C40 (as stated): after initializeDefaultRoles, createDefaultAdmin(email, password) on a
\* store with no user of that email creates a user that holds the admin role and that
\* login(email, password) accepts; on a store that has a user of that email it creates
\* nothing
C40_BootstrapAdmin ==
  [][\A e \in LoginEmails, w \in LoginPasswords, store \in StoreOutcomes :
       (last'.op = "createDefaultAdmin" /\ CreateDefaultAdmin(e, w, store))
         => IF findByEmail(usuarios, e) # NoId
            THEN usuarios' = usuarios /\ usuario_roles' = usuario_roles
            ELSE findByName(roles, "admin") # NoId
                   => /\ findByEmail(usuarios', e) # NoId
                      /\ "admin" \in RoleNames(usuario_roles', roles', findByEmail(usuarios', e))
                      /\ loginCheck(usuarios', e, w) = "OK"]_vars

\* C40 (what holds): createDefaultAdmin on a store with no user of that email creates a
\* user with that email and password that is inactive and holds no role, so login answers
\* ACCOUNT_DISABLED; on a store that has a user of that email it creates nothing
C40_BootstrapInactiveUser ==
  [][\A e \in LoginEmails, w \in LoginPasswords, store \in StoreOutcomes :
       (last'.op = "createDefaultAdmin" /\ CreateDefaultAdmin(e, w, store))
         => IF findByEmail(usuarios, e) # NoId
            THEN usuarios' = usuarios /\ usuario_roles' = usuario_roles
            ELSE LET u == findByEmail(usuarios', e) IN
                 /\ u # NoId
                 /\ verifyPassword(w, usuarios'[u].password_hash)
                 /\ ~ usuarios'[u].activo
                 /\ RoleNames(usuario_roles', roles', u) = {}
                 /\ loginCheck(usuarios', e, w) = "ACCOUNT_DISABLED"]_vars

\* after the roles were seeded and createDefaultAdmin created the user, a login of that
\* user was refused and the user holds no role
C40_Witness ==
  /\ last.op = "login" /\ last.code = "ACCOUNT_DISABLED"
  /\ findByName(roles, "admin") # NoId
  /\ last.uid \in DOMAIN usuarios
  /\ RoleNames(usuario_roles, roles, last.uid) = {}
  /\ <<NoId, NoId>> \in usuario_roles

====
